---------------------------- MODULE Spec2Model ----------------------------
(***************************************************************************)
(* StatementReader: the transaction extractors (src/src/parsers) and the   *)
(* rule-based classification of stored transactions                        *)
(* (backends/django/parser_api, scripts).                                  *)
(*                                                                         *)
(* Money is kept in integers.  A printed value with two decimals is held   *)
(* in cents; an Amount of a transaction is held in thousandths of a        *)
(* quetzal (a USD value of c cents times the rate 7.8 is c * 78            *)
(* thousandths), so that no rounding is introduced by the model.           *)
(* A confidence is held in tenths (0.5 is 5, 1.0 is 10).                   *)
(***************************************************************************)
EXTENDS Integers, Sequences, FiniteSets, TLC

VARIABLES
    \* ---- one run of a parser's extract_data ----
    parser,              \* the parser object: [cls, is_spouse], cls = "none" before get_parser
    pc,                  \* "idle" | "open" (inside extract_data) | "returned" | "raised"
    n_pages,             \* len(pdf.pages) of the document being read
    doc,                 \* the pages read so far, each the sequence of its lines read so far
    page_open,           \* TRUE while _parse_page_text runs on the last page of doc
    previous_balance,    \* local of _parse_page_text: <<>> is None, <<b>> a balance
    start_processing,    \* local of the credit USD _parse_page_text
    page_transactions,   \* local of _parse_page_text
    page_unknown_types,  \* local of the credit USD _parse_page_text
    transactions,        \* local of extract_data, its return value
    unknown_types,       \* local of the credit USD extract_data
    error_codes,         \* the codes listed by the ValueError of extract_data
    \* ---- the database and the classification passes ----
    patterns,            \* TransactionPattern table: sequence of rows, the id is the index
    merchant_patterns,   \* MerchantPattern table: sequence of rows
    txns,                \* Transaction table: sequence of rows, the id is the index
    pending,             \* save_transactions_to_db: descriptions still to be saved
    batch_rules,         \* the rule sets read so far by the running save batch
    script,              \* the running maintenance script: [name, force, rows]; one run per
                         \* script name where two scripts run side by side
    last,                \* the last operation on the tables: what it read and what it met
    \* ---- detection, the factory, text acquisition, export ----
    call,                \* the last call of a function: its name, arguments and outcome
    proc                 \* one call of PDFProcessor.process: its position and what it has run;
                         \* or a session with its files and the process_files requests on it

extract_vars == <<parser, pc, n_pages, doc, page_open, previous_balance, start_processing,
                  page_transactions, page_unknown_types, transactions,
                  unknown_types, error_codes>>
db_vars == <<patterns, merchant_patterns, txns, pending, batch_rules, script, last>>
tool_vars == <<call, proc>>
vars == <<parser, pc, n_pages, doc, page_open, previous_balance, start_processing,
          page_transactions, page_unknown_types, transactions,
          unknown_types, error_codes, patterns, merchant_patterns, txns, pending,
          batch_rules, script, last, call, proc>>

---------------------------------------------------------------------------
(* Bounds of the model *)
MaxLines == 3
MaxPages == 2

(* 7.8 quetzales per dollar, times ten *)
RATE_X10 == 78

---------------------------------------------------------------------------
(* Helpers *)

Abs(x) == IF x < 0 THEN -x ELSE x

Last(s) == s[Len(s)]

RECURSIVE Flatten(_)
Flatten(pages) ==
    IF pages = <<>> THEN <<>> ELSE Head(pages) \o Flatten(Tail(pages))

NLines == Len(Flatten(doc))

(* doc with one more line read on its last page *)
ReadLine(line) == [doc EXCEPT ![Len(doc)] = Append(@, line)]

---------------------------------------------------------------------------
(* The lines of a page, as far as a parser tells them apart.               *)
(*   noise: "none", or the line holds a keyword of the skip list, spelled  *)
(*          as listed ("listed") or in another letter case ("cased")       *)
(*   form : "ok" the line matches the grammar and its date is a calendar   *)
(*          date; "baddate" it matches but the date is rejected            *)
(*          (ValueError); "nomatch" it does not match; "header" the column *)
(*          header line of the credit USD statement; for a CSV row also    *)
(*          "nodate" (Fecha is no day-month pair) and "badamount" (float() *)
(*          raises on the amount cell)                                     *)
(*   code : type code, currency code or currency symbol                    *)
(*   sign : "-" when the currency code carries a minus sign (GyT)          *)
(*   amt, amt2: printed values in cents; -1: the column is absent (nan)    *)
(*   bal  : printed running balance in cents                               *)

Line(noise, form, code, sign, amt, amt2, bal) ==
    [noise |-> noise, form |-> form, code |-> code, sign |-> sign,
     amt |-> amt, amt2 |-> amt2, bal |-> bal]

CheckingLines ==
    {Line("none", "ok", "", "", a, -1, b) : a \in {1, 250}, b \in {100, 200}}
    \cup {Line("none", "nomatch", "", "", 0, -1, 0),
          Line("none", "baddate", "", "", 250, -1, 300)}
    \cup {Line(n, "ok", "", "", 250, -1, 300) : n \in {"listed", "cased"}}

CreditUSDLines ==
    {Line("none", "ok", c, "", 250, -1, 900) : c \in {"CONSUMO", "PAGO", "XX", "YY"}}
    \cup {Line("none", "ok", "DEBITO", "", 1, -1, 900),
          Line("none", "header", "", "", 0, -1, 0),
          Line("none", "nomatch", "", "", 0, -1, 0),
          Line("none", "baddate", "ZZ", "", 250, -1, 900)}
    \cup {Line("listed", "ok", "ZZ", "", 250, -1, 900),
          Line("cased", "ok", "PAGO", "", 250, -1, 900)}

GyTLines ==
    {Line("none", "ok", c, s, 250, -1, 0) : c \in {"QTZ", "USD"}, s \in {"", "-"}}
    \cup {Line("none", "ok", "DOL", "-", 1, -1, 0),
          Line("none", "ok", "GTQ", "-", 0, -1, 0),
          Line("none", "nomatch", "", "", 0, -1, 0),
          Line("none", "baddate", "QTZ", "", 250, -1, 0)}
    \cup {Line(n, "ok", "QTZ", "-", 250, -1, 0) : n \in {"listed", "cased"}}

BAMLines ==
    {Line("none", "ok", c, "", 250, -1, 0) : c \in {"Q", "$"}}
    \cup {Line("none", "ok", "Q", "", 0, 250, 0),
          Line("none", "ok", "$", "", 1, 250, 0),
          Line("none", "ok", "Q", "", 0, 0, 0),
          Line("none", "ok", "Q", "", 0, -1, 0),
          Line("none", "nomatch", "", "", 0, -1, 0),
          Line("none", "baddate", "Q", "", 250, -1, 0)}
    \cup {Line(n, "ok", "Q", "", 250, -1, 0) : n \in {"listed", "cased"}}

CsvRows ==
    {Line("none", "ok", c, "", 5000, -1, 0) : c \in {"NC", "DE", "ND", "CQ", "XX"}}
    \cup {Line("none", "ok", "NC", "", -1, 100000, 0),
          Line("none", "ok", "ND", "", -2500, -1, 0),
          Line("none", "ok", "NC", "", -1, -1, 0),
          Line("none", "nodate", "NC", "", 5000, -1, 0),
          Line("none", "baddate", "YY", "", 5000, -1, 0),
          Line("none", "badamount", "ZZ", "", 0, -1, 0)}

---------------------------------------------------------------------------
(* Values *)

(* a printed value of c cents, as thousandths *)
Milli(c) == c * 10

(* x * 7.8 on thousandths: every x here is a multiple of ten *)
TimesRate(x) == (x * RATE_X10) \div 10

Txn(amount, type, account, value, currency) ==
    [Amount |-> amount, Type |-> type, Account |-> account,
     OriginalValue |-> value, OriginalCurrency |-> currency]

(* any(keyword.lower() in line.lower() for keyword in skip_keywords) *)
SkipKeyword(line) == line.noise # "none"

(* any(skip in line for skip in [...]): the comparison keeps the case *)
SkipFooter(line) == line.noise = "listed"

---------------------------------------------------------------------------
(* Per-line logic of the parsers *)

(* banco_industrial_checking_parser.py 86-103, bi_usd_checking_parser.py   *)
(* 84-99: the type from the balance change; None gives credit              *)
BalanceType_ge(prev, current_balance) ==
    IF prev # <<>>
    THEN IF current_balance - prev[1] >= 0 THEN "credit" ELSE "debit"
    ELSE "credit"

(* the rule without the credit default of the first line *)
BalanceType_no_default(prev, current_balance) ==
    IF prev # <<>> /\ current_balance - prev[1] > 0 THEN "credit" ELSE "debit"

BalanceType(prev, current_balance) ==
    IF prev # <<>>
    THEN IF current_balance - prev[1] > 0 THEN "credit" ELSE "debit"
    ELSE "credit"

(* amount = abs(amount) for a credit, -abs(amount) for a debit *)
SignedByType(transaction_type, amount) ==
    IF transaction_type = "credit" THEN Abs(amount) ELSE -Abs(amount)

BIChecking_transaction(line, prev, is_spouse) ==
    LET current_balance == Milli(line.bal)
        amount_value == Milli(line.amt)
        transaction_type == BalanceType(prev, current_balance)
        amount == SignedByType(transaction_type, amount_value)
    IN  Txn(amount, transaction_type,
            IF is_spouse THEN "Industrial GTQ (Spouse)" ELSE "Industrial GTQ",
            Abs(amount), "GTQ")

BIUSDChecking_transaction(line, prev, is_spouse) ==
    LET amount_usd == Milli(line.amt)
        current_balance == TimesRate(Milli(line.bal))
        transaction_type == BalanceType(prev, current_balance)
        amount == SignedByType(transaction_type, TimesRate(amount_usd))
    IN  Txn(amount, transaction_type,
            IF is_spouse THEN "Industrial USD 9384 (Spouse)" ELSE "Industrial USD 9384",
            Abs(amount_usd), "USD")

DEBIT_TYPES == {"DEBITO", "CONSUMO"}
CREDIT_TYPES == {"PAGO AGENC", "PAGO", "CREDITO"}

(* banco_industrial_credit_usd_parser.py 89-98: "debit", "credit", or      *)
(* "unknown" when the code is in neither table                             *)
CreditUSDType(trans_type) ==
    IF trans_type \in DEBIT_TYPES THEN "debit"
    ELSE IF trans_type \in CREDIT_TYPES THEN "credit"
    ELSE "unknown"

BICreditUSD_transaction(line, is_spouse) ==
    LET amount == Milli(line.amt)
        amount_gtq == TimesRate(amount)
        transaction_type == CreditUSDType(line.code)
    IN  Txn(IF transaction_type = "debit" THEN -amount_gtq ELSE amount_gtq,
            transaction_type,
            IF is_spouse THEN "BI 1116 USD (Spouse)" ELSE "BI 1116 USD",
            Abs(amount), "USD")

GyT_transaction(line, is_spouse) ==
    LET original_currency == IF line.code \in {"DOL", "USD"} THEN "USD" ELSE "GTQ"
        original_value == IF line.sign = "-" THEN -Milli(line.amt) ELSE Milli(line.amt)
        amount == IF original_currency = "USD" THEN TimesRate(original_value)
                  ELSE original_value
        transaction_type == IF amount >= 0 THEN "credit" ELSE "debit"
    IN  Txn(amount, transaction_type,
            IF is_spouse THEN "GyT 5978 (Spouse)" ELSE "GyT 5978",
            original_value, original_currency)

(* bam_credit_parser.py 82, 107-133: <<>> when both amounts are zero *)
BAM_transaction(line) ==
    LET credit == IF line.amt2 = -1 THEN 0 ELSE line.amt2
        original_currency == IF line.code = "$" THEN "USD" ELSE "GTQ"
        Converted(v) == Abs(IF original_currency = "USD" THEN TimesRate(Milli(v))
                            ELSE Milli(v))
    IN  IF credit # 0
        THEN <<Txn(Converted(credit), "credit", "BAM Credit Card",
                   Milli(credit), original_currency)>>
        ELSE IF line.amt # 0
        THEN <<Txn(Converted(line.amt), "debit", "BAM Credit Card",
                   Milli(line.amt), original_currency)>>
        ELSE <<>>

(* a mapping that takes DE for a debit *)
CsvType_de_debit(tt_code) == IF tt_code = "NC" THEN "credit" ELSE "debit"

(* bi_checking_csv_parser.py 154-160: an unknown TT code defaults to debit *)
CsvType(tt_code) ==
    IF tt_code \in {"NC", "DE"} THEN "credit"
    ELSE IF tt_code \in {"ND", "CQ"} THEN "debit"
    ELSE "debit"

BICsv_parse_transaction_row_noabs(row) ==
    IF row.form # "ok" THEN <<>>
    ELSE LET transaction_type == CsvType(row.code)
             value == IF row.amt # -1 THEN row.amt ELSE row.amt2
         IN  IF row.amt = -1 /\ row.amt2 = -1 THEN <<>>
             ELSE <<Txn(Milli(value), transaction_type, "Industrial GTQ",
                        Milli(value), "GTQ")>>

(* bi_checking_csv_parser.py 130-198: <<>> for a row that gives None or    *)
(* raises (the caller skips it)                                            *)
BICsv_parse_transaction_row(row) ==
    IF row.form # "ok" THEN <<>>
    ELSE LET transaction_type == CsvType(row.code)
             value == IF row.amt # -1 THEN row.amt ELSE row.amt2
         IN  IF row.amt = -1 /\ row.amt2 = -1 THEN <<>>
             ELSE <<Txn(Abs(Milli(value)), transaction_type, "Industrial GTQ",
                        Abs(Milli(value)), "GTQ")>>

---------------------------------------------------------------------------
(* ParserFactory *)

Parser(cls, is_spouse) == [cls |-> cls, is_spouse |-> is_spouse]

NoParser == Parser("none", FALSE)

(* parser_factory.py 27-41; BAMCreditParser is built without is_spouse *)
get_parser(bank_type, account_type, is_spouse) ==
    IF bank_type = "industrial" /\ account_type = "checking"
    THEN Parser("BancoIndustrialCheckingParser", is_spouse)
    ELSE IF bank_type = "industrial" /\ account_type = "usd_checking"
    THEN Parser("BIUSDCheckingParser", is_spouse)
    ELSE IF bank_type = "industrial" /\ account_type = "credit"
    THEN Parser("BancoIndustrialCreditParser", is_spouse)
    ELSE IF bank_type = "industrial" /\ account_type = "credit_usd"
    THEN Parser("BancoIndustrialCreditUSDParser", is_spouse)
    ELSE IF bank_type = "bam" /\ account_type = "credit"
    THEN Parser("BAMCreditParser", FALSE)
    ELSE IF bank_type = "gyt" /\ account_type = "credit"
    THEN Parser("GyTCreditParser", is_spouse)
    ELSE Parser("ValueError", FALSE)

(* parser_factory.py 57-63 *)
get_csv_parser(bank_type, account_type, is_spouse) ==
    IF bank_type = "industrial" /\ account_type = "checking"
    THEN Parser("BICheckingCSVParser", is_spouse)
    ELSE IF bank_type = "industrial" /\ account_type = "usd_checking"
    THEN Parser("BIUSDCheckingCSVParser", is_spouse)
    ELSE Parser("ValueError", FALSE)

(* the pairs whose extractor is modelled line by line *)
PdfPairs == {<<"industrial", "checking">>, <<"industrial", "usd_checking">>,
             <<"industrial", "credit_usd">>, <<"bam", "credit">>, <<"gyt", "credit">>}

PdfParsers == {"BancoIndustrialCheckingParser", "BIUSDCheckingParser",
               "BancoIndustrialCreditUSDParser", "BAMCreditParser", "GyTCreditParser"}

---------------------------------------------------------------------------
(* extract_data, one step per page boundary and per line *)

db_idle == UNCHANGED <<db_vars, tool_vars>>

extract_idle == UNCHANGED <<extract_vars, tool_vars>>

GetParser ==
    /\ pc = "idle"
    /\ \E pair \in PdfPairs, is_spouse \in BOOLEAN :
          /\ parser' = get_parser(pair[1], pair[2], is_spouse)
          /\ call' = [fn |-> "get_parser", bank_type |-> pair[1],
                      account_type |-> pair[2], is_spouse |-> is_spouse]
    /\ pc' = "open"
    /\ n_pages' \in 0..MaxPages
    /\ UNCHANGED <<doc, page_open, previous_balance, start_processing,
                   page_transactions, page_unknown_types, transactions,
                   unknown_types, error_codes>>
    /\ UNCHANGED <<db_vars, proc>>

GetCsvParser ==
    /\ pc = "idle"
    /\ \E is_spouse \in BOOLEAN :
          /\ parser' = get_csv_parser("industrial", "checking", is_spouse)
          /\ call' = [fn |-> "get_csv_parser", bank_type |-> "industrial",
                      account_type |-> "checking", is_spouse |-> is_spouse]
    /\ pc' = "open"
    /\ n_pages' = 1
    /\ UNCHANGED <<doc, page_open, previous_balance, start_processing,
                   page_transactions, page_unknown_types, transactions,
                   unknown_types, error_codes>>
    /\ UNCHANGED <<db_vars, proc>>

(* for page_num, page in enumerate(pdf.pages, 1): the call of             *)
(* _parse_page_text begins, its locals are fresh                          *)
BeginPage ==
    /\ pc = "open" /\ parser.cls \in PdfParsers
    /\ ~page_open /\ Len(doc) < n_pages
    /\ doc' = Append(doc, <<>>)
    /\ page_open' = TRUE
    /\ previous_balance' = <<>>
    /\ start_processing' = (Len(doc) # 0)      \* not is_first_page
    /\ page_transactions' = <<>>
    /\ page_unknown_types' = {}
    /\ UNCHANGED <<parser, pc, n_pages, transactions, unknown_types, error_codes>>
    /\ db_idle

(* _parse_page_text returns: transactions.extend(page_transactions),      *)
(* unknown_types.update(page_unknown_types)                                *)
EndPage ==
    /\ pc = "open" /\ parser.cls \in PdfParsers
    /\ page_open
    /\ page_open' = FALSE
    /\ transactions' = transactions \o page_transactions
    /\ unknown_types' = unknown_types \cup page_unknown_types
    /\ UNCHANGED <<parser, pc, n_pages, doc, previous_balance, start_processing,
                   page_transactions, page_unknown_types, error_codes>>
    /\ db_idle

(* the line loop of a page is running and may read one more line *)
InPage(cls) ==
    /\ pc = "open" /\ parser.cls = cls
    /\ page_open
    /\ NLines < MaxLines

BICheckingLine ==
    /\ InPage("BancoIndustrialCheckingParser")
    /\ \E line \in CheckingLines :
          /\ doc' = ReadLine(line)
          /\ IF ~SkipKeyword(line) /\ line.form = "ok"
             THEN /\ page_transactions' = Append(page_transactions,
                        BIChecking_transaction(line, previous_balance, parser.is_spouse))
                  /\ previous_balance' = <<Milli(line.bal)>>
             ELSE UNCHANGED <<page_transactions, previous_balance>>
    /\ UNCHANGED <<parser, pc, n_pages, page_open, start_processing, page_unknown_types,
                   transactions, unknown_types, error_codes>>
    /\ db_idle

BIUSDCheckingLine ==
    /\ InPage("BIUSDCheckingParser")
    /\ \E line \in CheckingLines :
          /\ doc' = ReadLine(line)
          /\ IF ~SkipKeyword(line) /\ line.form = "ok"
             THEN /\ page_transactions' = Append(page_transactions,
                        BIUSDChecking_transaction(line, previous_balance, parser.is_spouse))
                  /\ previous_balance' = <<TimesRate(Milli(line.bal))>>
             ELSE UNCHANGED <<page_transactions, previous_balance>>
    /\ UNCHANGED <<parser, pc, n_pages, page_open, start_processing, page_unknown_types,
                   transactions, unknown_types, error_codes>>
    /\ db_idle

BICreditUSDLine ==
    /\ InPage("BancoIndustrialCreditUSDParser")
    /\ \E line \in CreditUSDLines :
          LET is_first_page == Len(doc) = 1 IN
          /\ doc' = ReadLine(line)
          /\ IF is_first_page /\ line.form = "header"
             THEN /\ start_processing' = TRUE
                  /\ UNCHANGED <<page_transactions, page_unknown_types>>
             ELSE IF (is_first_page /\ ~start_processing) \/ SkipFooter(line)
                     \/ line.form # "ok"
             THEN UNCHANGED <<start_processing, page_transactions, page_unknown_types>>
             ELSE IF CreditUSDType(line.code) = "unknown"
             THEN /\ page_unknown_types' = page_unknown_types \cup {line.code}
                  /\ UNCHANGED <<start_processing, page_transactions>>
             ELSE /\ page_transactions' = Append(page_transactions,
                        BICreditUSD_transaction(line, parser.is_spouse))
                  /\ UNCHANGED <<start_processing, page_unknown_types>>
    /\ UNCHANGED <<parser, pc, n_pages, page_open, previous_balance,
                   transactions, unknown_types, error_codes>>
    /\ db_idle

GyTLine ==
    /\ InPage("GyTCreditParser")
    /\ \E line \in GyTLines :
          /\ doc' = ReadLine(line)
          /\ IF ~SkipKeyword(line) /\ line.form = "ok"
             THEN page_transactions' = Append(page_transactions,
                        GyT_transaction(line, parser.is_spouse))
             ELSE UNCHANGED page_transactions
    /\ UNCHANGED <<parser, pc, n_pages, page_open, previous_balance, start_processing,
                   page_unknown_types, transactions, unknown_types, error_codes>>
    /\ db_idle

BAMLine ==
    /\ InPage("BAMCreditParser")
    /\ \E line \in BAMLines :
          /\ doc' = ReadLine(line)
          /\ IF ~SkipKeyword(line) /\ line.form = "ok"
             THEN page_transactions' = page_transactions \o BAM_transaction(line)
             ELSE UNCHANGED page_transactions
    /\ UNCHANGED <<parser, pc, n_pages, page_open, previous_balance, start_processing,
                   page_unknown_types, transactions, unknown_types, error_codes>>
    /\ db_idle

ExtractOutcome_returns(unknown) == "returned"

(* banco_industrial_credit_usd_parser.py 29-37: raise when unknown types   *)
(* were met, else return                                                   *)
ExtractOutcome(unknown) == IF unknown # {} THEN "raised" ELSE "returned"

(* the page loop is over when every page of the document was scanned *)
LoopDone(pages_done, pages) == pages_done = pages

Return ==
    /\ pc = "open" /\ parser.cls \in PdfParsers
    /\ ~page_open /\ LoopDone(Len(doc), n_pages)
    /\ pc' = IF parser.cls = "BancoIndustrialCreditUSDParser"
             THEN ExtractOutcome(unknown_types) ELSE "returned"
    /\ error_codes' = IF pc' = "raised" THEN unknown_types ELSE {}
    /\ UNCHANGED <<parser, n_pages, doc, page_open, previous_balance, start_processing,
                   page_transactions, page_unknown_types, transactions, unknown_types>>
    /\ db_idle

(* bi_checking_csv_parser.py 18-67: the file is read and its header found; *)
(* the rows of the frame follow                                            *)
BICsvReadFile ==
    /\ pc = "open" /\ parser.cls = "BICheckingCSVParser"
    /\ doc = <<>>
    /\ doc' = <<<<>>>>
    /\ page_open' = TRUE
    /\ UNCHANGED <<parser, pc, n_pages, previous_balance, start_processing, page_transactions,
                   page_unknown_types, transactions, unknown_types, error_codes>>
    /\ db_idle

(* bi_checking_csv_parser.py 70-77 *)
BICsvRow ==
    /\ InPage("BICheckingCSVParser")
    /\ \E row \in CsvRows :
          /\ doc' = ReadLine(row)
          /\ transactions' = transactions \o BICsv_parse_transaction_row(row)
    /\ UNCHANGED <<parser, pc, n_pages, page_open, previous_balance, start_processing,
                   page_transactions, page_unknown_types, unknown_types, error_codes>>
    /\ db_idle

(* bi_checking_csv_parser.py 79-80 *)
BICsvReturn ==
    /\ pc = "open" /\ parser.cls = "BICheckingCSVParser"
    /\ page_open
    /\ page_open' = FALSE
    /\ pc' = "returned"
    /\ UNCHANGED <<parser, n_pages, doc, previous_balance, start_processing, page_transactions,
                   page_unknown_types, transactions, unknown_types, error_codes>>
    /\ db_idle

DbIdleInit ==
    /\ patterns = <<>>
    /\ txns = <<>>
    /\ pending = <<>>
    /\ merchant_patterns = <<>>
    /\ batch_rules = {}
    /\ script = [name |-> "none"]
    /\ last = [op |-> "none"]

(* nothing has been called *)
ToolIdleInit ==
    /\ call = [fn |-> "none"]
    /\ proc = [pc |-> "idle"]

(* no extraction has started *)
ExtractIdleInit ==
    /\ parser = NoParser
    /\ pc = "idle"
    /\ n_pages = 0
    /\ doc = <<>>
    /\ page_open = FALSE
    /\ previous_balance = <<>>
    /\ start_processing = FALSE
    /\ page_transactions = <<>>
    /\ page_unknown_types = {}
    /\ transactions = <<>>
    /\ unknown_types = {}
    /\ error_codes = {}

ExtractInit == ExtractIdleInit /\ DbIdleInit /\ ToolIdleInit

ExtractNext ==
    \/ GetParser
    \/ GetCsvParser
    \/ BeginPage
    \/ EndPage
    \/ BICheckingLine
    \/ BIUSDCheckingLine
    \/ BICreditUSDLine
    \/ GyTLine
    \/ BAMLine
    \/ Return
    \/ BICsvReadFile
    \/ BICsvRow
    \/ BICsvReturn

ExtractSpec == ExtractInit /\ [][ExtractNext]_vars

---------------------------------------------------------------------------
(* Properties of the extractors *)

(* every transaction emitted so far, in order *)
Emitted == IF page_open THEN transactions \o page_transactions ELSE transactions

Finished == pc \in {"returned", "raised"}

(* what the caller of extract_data receives *)
ReturnValue == IF pc = "returned" THEN transactions ELSE <<>>

SignedParsers == {"BancoIndustrialCheckingParser", "BIUSDCheckingParser",
                  "BancoIndustrialCreditUSDParser", "GyTCreditParser"}

UnsignedParsers == {"BAMCreditParser", "BICheckingCSVParser"}

ParsedLines(lines) == SelectSeq(lines, LAMBDA l : l.noise = "none" /\ l.form = "ok")

(* the types the balance-diff rule gives the parsed lines of one scan *)
DiffTypes(parsed) ==
    [k \in 1..Len(parsed) |->
        IF k = 1 THEN "credit"
        ELSE IF parsed[k].bal - parsed[k-1].bal > 0 THEN "credit" ELSE "debit"]

RECURSIVE DocDiffTypes(_)
DocDiffTypes(pages) ==
    IF pages = <<>> THEN <<>>
    ELSE DiffTypes(ParsedLines(Head(pages))) \o DocDiffTypes(Tail(pages))

CheckingParsers == {"BancoIndustrialCheckingParser", "BIUSDCheckingParser"}

(* C2: in a checking extractor, every parsed line of a scan               *)
(* (_parse_page_text call) after the first is typed credit exactly when    *)
(* its balance exceeds the balance of the parsed line before it, debit     *)
(* otherwise (also when the balance is unchanged); the first parsed line   *)
(* of the scan is typed credit.                                            *)
C2_BalanceDiffType ==
    parser.cls \in CheckingParsers =>
        /\ Len(Emitted) = Len(DocDiffTypes(doc))
        /\ \A i \in 1..Len(Emitted) : Emitted[i].Type = DocDiffTypes(doc)[i]

(* three parsed lines of one page: first, unchanged balance, risen balance *)
C2_Witness ==
    /\ pc = "returned" /\ parser.cls = "BIUSDCheckingParser"
    /\ Len(doc) = 1 /\ Len(doc[1]) = 3 /\ Len(transactions) = 3
    /\ doc[1][2].bal = doc[1][1].bal /\ doc[1][3].bal > doc[1][2].bal
    /\ transactions[1].Type = "credit"
    /\ transactions[2].Type = "debit"
    /\ transactions[3].Type = "credit"

KnownCodes(cls) ==
    IF cls = "BICheckingCSVParser" THEN {"NC", "DE", "ND", "CQ"}
    ELSE DEBIT_TYPES \cup CREDIT_TYPES

(* the lines of page p of the credit USD statement that reach the type     *)
(* lookup: after the header on the first page, no footer, grammar and date *)
(* accepted                                                                *)
CreditUSDLooked(p) ==
    {k \in 1..Len(doc[p]) :
        /\ doc[p][k].form = "ok" /\ doc[p][k].noise # "listed"
        /\ p = 1 => \E j \in 1..(k-1) : doc[1][j].form = "header"}

(* the unknown codes met on any page *)
UnknownMet ==
    IF parser.cls = "BancoIndustrialCreditUSDParser"
    THEN UNION {{doc[p][k].code : k \in {j \in CreditUSDLooked(p) :
                    doc[p][j].code \notin KnownCodes(parser.cls)}} : p \in 1..Len(doc)}
    ELSE IF parser.cls = "BICheckingCSVParser" /\ doc # <<>>
    THEN {doc[1][k].code : k \in {j \in 1..Len(doc[1]) :
              /\ doc[1][j].form = "ok"
              /\ ~(doc[1][j].amt = -1 /\ doc[1][j].amt2 = -1)
              /\ doc[1][j].code \notin KnownCodes(parser.cls)}}
    ELSE {}

ExplicitCodeParsers == {"BancoIndustrialCreditUSDParser", "BICheckingCSVParser"}

(* C3, as claimed: in an explicit-code format, a document with a line      *)
(* whose type code is not in the lookup table makes the extraction fail    *)
(* naming that code; no transaction is returned for it.                    *)
C3_UnknownCodeFails ==
    parser.cls \in ExplicitCodeParsers /\ Finished /\ UnknownMet # {} =>
        /\ pc = "raised"
        /\ UnknownMet \subseteq error_codes

(* C4: in the credit USD extractor the failure is raised only when every   *)
(* page has been scanned, it lists exactly the distinct unknown codes met  *)
(* on any page, and nothing is returned when that set is not empty.        *)
C4_UnknownTypesAfterLastPage ==
    parser.cls = "BancoIndustrialCreditUSDParser" =>
        /\ pc = "raised" => /\ Len(doc) = n_pages /\ ~page_open
                            /\ error_codes = UnknownMet
                            /\ error_codes # {}
        /\ pc = "returned" => UnknownMet = {}
        /\ Finished /\ UnknownMet # {} => ReturnValue = <<>>

(* unknown codes on both pages, reported together after the second *)
C4_Witness ==
    /\ pc = "raised" /\ parser.cls = "BancoIndustrialCreditUSDParser"
    /\ Len(doc) = 2 /\ error_codes = {"XX", "YY"}
    /\ \E k \in CreditUSDLooked(1) : doc[1][k].code = "XX"
    /\ \E k \in CreditUSDLooked(2) : doc[2][k].code = "YY"
    /\ \A k \in 1..Len(doc[1]) : doc[1][k].code # "YY"

---------------------------------------------------------------------------
(* Strings are sequences of characters; a description is written with     *)
(* letters and digits, a pattern text also with the backslash and the     *)
(* opening parenthesis.                                                   *)

Digits == {"1"}

(* str.lower(), character by character *)
LowerChar(c) == CASE c = "A" -> "a" [] c = "D" -> "d" [] OTHER -> c

Lower(s) == [i \in 1..Len(s) |-> LowerChar(s[i])]

(* p in d *)
Contains(p, d) == \E i \in 0..(Len(d) - Len(p)) : SubSeq(d, i + 1, i + Len(p)) = p

(* d.startswith(p), d.endswith(p) *)
StartsWith(d, p) == Len(p) <= Len(d) /\ SubSeq(d, 1, Len(p)) = p

EndsWith(d, p) == Len(p) <= Len(d) /\ SubSeq(d, Len(d) - Len(p) + 1, Len(d)) = p

(* re.compile on the pattern texts of the model: \d and \D are the digit   *)
(* and non-digit classes, a backslash before another character makes it    *)
(* a literal, a trailing backslash and a parenthesis that is never closed  *)
(* are errors (re.error); every other character is a literal.              *)
ReError == [ok |-> FALSE, toks |-> <<>>]

RECURSIVE re_compile(_)
re_compile(p) ==
    IF p = <<>> THEN [ok |-> TRUE, toks |-> <<>>]
    ELSE IF p[1] = "(" THEN ReError
    ELSE IF p[1] = "\\" THEN
        IF Len(p) = 1 THEN ReError
        ELSE LET rest == re_compile(SubSeq(p, 3, Len(p)))
                 tok == CASE p[2] = "d" -> [kind |-> "digit", ch |-> ""]
                          [] p[2] = "D" -> [kind |-> "nondigit", ch |-> ""]
                          [] OTHER -> [kind |-> "lit", ch |-> p[2]]
             IN IF rest.ok THEN [ok |-> TRUE, toks |-> <<tok>> \o rest.toks] ELSE ReError
    ELSE LET rest == re_compile(Tail(p))
         IN IF rest.ok THEN [ok |-> TRUE, toks |-> <<[kind |-> "lit", ch |-> p[1]]>> \o rest.toks]
            ELSE ReError

(* one token against one character; ignorecase is re.IGNORECASE *)
TokMatch(tok, c, ignorecase) ==
    CASE tok.kind = "digit" -> c \in Digits
      [] tok.kind = "nondigit" -> c \notin Digits
      [] OTHER -> IF ignorecase THEN LowerChar(tok.ch) = LowerChar(c) ELSE tok.ch = c

(* bool(re.search(...)) for a compiled pattern *)
re_search(toks, d, ignorecase) ==
    \E i \in 0..(Len(d) - Len(toks)) :
        \A k \in 1..Len(toks) : TokMatch(toks[k], d[i + k], ignorecase)

YesNo(b) == IF b THEN "yes" ELSE "no"

(* the match of one rule in views.auto_categorize_transaction: "yes",     *)
(* "no", or "re.error" when re.search raises                               *)
views_match_found(pattern, desc) ==
    LET description == Lower(desc)
        pattern_text == Lower(pattern.pattern)
    IN CASE pattern.match_type = "exact" -> YesNo(description = pattern_text)
         [] pattern.match_type = "contains" -> YesNo(Contains(pattern_text, description))
         [] pattern.match_type = "starts_with" -> YesNo(StartsWith(description, pattern_text))
         [] pattern.match_type = "ends_with" -> YesNo(EndsWith(description, pattern_text))
         [] pattern.match_type = "regex" ->
                LET c == re_compile(pattern_text)
                IN IF c.ok THEN YesNo(re_search(c.toks, description, FALSE)) ELSE "re.error"
         [] OTHER -> "no"

(* the match of one rule in the scripts (recategorize, renormalize)       *)
script_matched(pattern, desc) ==
    LET description_lower == Lower(desc)
        pattern_text == Lower(pattern.pattern)
    IN CASE pattern.match_type = "exact" -> YesNo(description_lower = pattern_text)
         [] pattern.match_type = "contains" -> YesNo(Contains(pattern_text, description_lower))
         [] pattern.match_type = "starts_with" -> YesNo(StartsWith(description_lower, pattern_text))
         [] pattern.match_type = "ends_with" -> YesNo(EndsWith(description_lower, pattern_text))
         [] pattern.match_type = "regex" ->
                LET c == re_compile(pattern.pattern)
                IN IF c.ok THEN YesNo(re_search(c.toks, desc, TRUE)) ELSE "re.error"
         [] OTHER -> "no"

---------------------------------------------------------------------------
(* The tables.  A rule row is [id, pattern, match_type, confidence,       *)
(* is_active, category] (normalized_name for a merchant rule); a          *)
(* transaction row is [description, category, category_confidence,        *)
(* manually_categorized, merchant_name]; "None" is the null category.     *)

IsSortedDesc(q) == \A j, k \in DOMAIN q : j < k => q[j].confidence >= q[k].confidence

(* a query that forgets the filter and sorts the other way round *)
filter_order_by_asc(table) ==
    LET n == Len(table)
        orders == {q \in [1..n -> 1..n] : \A j, k \in 1..n : j # k => q[j] # q[k]}
    IN {r \in {[k \in 1..n |-> table[q[k]]] : q \in orders} :
            \A j, k \in 1..n : j < k => r[j].confidence <= r[k].confidence}

(* objects.filter(is_active=True).order_by('-confidence'): the active rows *)
(* by descending confidence; rows of equal confidence come in any order    *)
filter_order_by(table) ==
    LET active == {i \in DOMAIN table : table[i].is_active}
        n == Cardinality(active)
        orders == {q \in [1..n -> active] : \A j, k \in 1..n : j # k => q[j] # q[k]}
    IN {r \in {[k \in 1..n |-> table[q[k]]] : q \in orders} : IsSortedDesc(r)}

(* what a classification call did: the row it saved (<<>> when it saved   *)
(* nothing), whether it raised, and the script's return value             *)
NoSave == [save |-> <<>>, raised |-> FALSE, returns |-> FALSE]

Saved(row) == [save |-> <<row>>, raised |-> FALSE, returns |-> TRUE]

(* a pass that falls back on a catch-all category when nothing matched *)
RECURSIVE views_auto_categorize_transaction_default(_, _)
views_auto_categorize_transaction_default(rules, transaction) ==
    IF rules = <<>>
    THEN Saved([transaction EXCEPT !.category = "Other", !.category_confidence = 0])
    ELSE LET pattern == Head(rules)
         IN IF views_match_found(pattern, transaction.description) = "yes"
            THEN Saved([transaction EXCEPT !.category = pattern.category,
                                           !.category_confidence = pattern.confidence])
            ELSE views_auto_categorize_transaction_default(Tail(rules), transaction)

(* a pass that lets re.error out of the loop *)
RECURSIVE views_auto_categorize_transaction_abort(_, _)
views_auto_categorize_transaction_abort(rules, transaction) ==
    IF rules = <<>> THEN NoSave
    ELSE LET pattern == Head(rules)
             match_found == views_match_found(pattern, transaction.description)
         IN IF match_found = "re.error"
            THEN [save |-> <<>>, raised |-> TRUE, returns |-> FALSE]
            ELSE IF match_found = "yes"
            THEN Saved([transaction EXCEPT !.category = pattern.category,
                                           !.category_confidence = pattern.confidence])
            ELSE views_auto_categorize_transaction_abort(Tail(rules), transaction)

(* views.auto_categorize_transaction, the loop over the queried patterns *)
RECURSIVE views_auto_categorize_transaction(_, _)
views_auto_categorize_transaction(rules, transaction) ==
    IF rules = <<>> THEN NoSave
    ELSE LET pattern == Head(rules)
             match_found == views_match_found(pattern, transaction.description)
         IN IF match_found = "yes"
            THEN Saved([transaction EXCEPT !.category = pattern.category,
                                           !.category_confidence = pattern.confidence])
            ELSE views_auto_categorize_transaction(Tail(rules), transaction)

(* recategorize_transactions.auto_categorize_transaction: the loop *)
RECURSIVE script_for_patterns(_, _)
script_for_patterns(rules, transaction) ==
    IF rules = <<>> THEN NoSave
    ELSE LET pattern == Head(rules)
             matched == script_matched(pattern, transaction.description)
         IN IF matched = "yes"
            THEN Saved([transaction EXCEPT !.category = pattern.category,
                                           !.category_confidence = pattern.confidence])
            ELSE script_for_patterns(Tail(rules), transaction)

(* recategorize_transactions.auto_categorize_transaction *)
script_auto_categorize_transaction(rules, transaction) ==
    IF transaction.manually_categorized THEN NoSave
    ELSE script_for_patterns(rules, transaction)

(* renormalize_transactions.auto_normalize_merchant *)
RECURSIVE auto_normalize_merchant(_, _)
auto_normalize_merchant(rules, transaction) ==
    IF rules = <<>> THEN NoSave
    ELSE LET pattern == Head(rules)
             matched == script_matched(pattern, transaction.description)
         IN IF matched = "yes"
            THEN Saved([transaction EXCEPT !.merchant_name = pattern.normalized_name])
            ELSE auto_normalize_merchant(Tail(rules), transaction)

(* transaction.save(): every field of the object is written to its row *)
Save(table, id, out) == IF out.save = <<>> THEN table ELSE [table EXCEPT ![id] = out.save[1]]

---------------------------------------------------------------------------
(* Classification as a function of the rule table and the transaction:    *)
(* the tables are drawn from bounded sets and the three classification    *)
(* functions are applied to them.                                          *)

MaxPatterns == 2

(* confidence and is_active of a rule: two active rules may tie or differ, *)
(* an inactive rule has the higher confidence                              *)
RuleStates == { <<9, TRUE>>, <<5, TRUE>>, <<9, FALSE>> }

(* pattern text and match type of the rules of the model; "(" does not    *)
(* compile, \D lowercased is \d                                            *)
RuleKinds == { <<<<"a">>, "contains">>, <<<<"A", "1">>, "exact">>,
               <<<<"a">>, "starts_with">>, <<<<"1">>, "ends_with">>,
               <<<<"\\", "D">>, "regex">>, <<<<"(">>, "regex">> }

Descriptions == { <<"A", "1">>, <<"1">> }

CategoryOf(id) == IF id % 2 = 1 THEN "Food" ELSE "Rent"

TransactionPattern(id, kind, confidence, is_active) ==
    [id |-> id, pattern |-> kind[1], match_type |-> kind[2], confidence |-> confidence,
     is_active |-> is_active, category |-> CategoryOf(id)]

MerchantPattern(id, kind, confidence, is_active) ==
    [id |-> id, pattern |-> kind[1], match_type |-> kind[2], confidence |-> confidence,
     is_active |-> is_active, normalized_name |-> "Acme"]

Transaction(description, category, category_confidence, manually_categorized) ==
    [description |-> description, category |-> category,
     category_confidence |-> category_confidence,
     manually_categorized |-> manually_categorized, merchant_name |-> ""]

PatternTables ==
    { [i \in 1..MaxPatterns |-> TransactionPattern(i, c[i][1], c[i][2][1], c[i][2][2])] :
        c \in [1..MaxPatterns -> RuleKinds \X RuleStates] }

MerchantTables ==
    { <<MerchantPattern(1, <<<<"a">>, "contains">>, 9, TRUE)>> }

(* a new row, an automatically categorized row, a manually categorized row *)
TransactionRows ==
    UNION { { Transaction(d, "None", 0, FALSE), Transaction(d, "Rent", 5, FALSE),
              Transaction(d, "Misc", 10, TRUE) } : d \in Descriptions }

ClassifyInit ==
    /\ ExtractIdleInit
    /\ ToolIdleInit
    /\ patterns \in PatternTables
    /\ merchant_patterns \in MerchantTables
    /\ txns \in { <<t>> : t \in TransactionRows }
    /\ pending = <<>>
    /\ batch_rules = {}
    /\ script = [name |-> "none"]
    /\ last = [op |-> "none"]

Call(op, id, rules, out) ==
    [op |-> op, id |-> id, rules |-> rules, before |-> txns[id], out |-> out]

ViewsAutoCategorize ==
    /\ \E id \in DOMAIN txns, rules \in filter_order_by(patterns) :
         LET out == views_auto_categorize_transaction(rules, txns[id])
         IN /\ txns' = Save(txns, id, out)
            /\ last' = Call("views.auto_categorize_transaction", id, rules, out)
    /\ UNCHANGED <<patterns, merchant_patterns, pending, batch_rules, script>>
    /\ extract_idle

ScriptAutoCategorize ==
    /\ \E id \in DOMAIN txns, rules \in filter_order_by(patterns) :
         LET out == script_auto_categorize_transaction(rules, txns[id])
         IN /\ txns' = Save(txns, id, out)
            /\ last' = Call("recategorize.auto_categorize_transaction", id, rules, out)
    /\ UNCHANGED <<patterns, merchant_patterns, pending, batch_rules, script>>
    /\ extract_idle

AutoNormalizeMerchant ==
    /\ \E id \in DOMAIN txns, rules \in filter_order_by(merchant_patterns) :
         LET out == auto_normalize_merchant(rules, txns[id])
         IN /\ txns' = Save(txns, id, out)
            /\ last' = Call("renormalize.auto_normalize_merchant", id, rules, out)
    /\ UNCHANGED <<patterns, merchant_patterns, pending, batch_rules, script>>
    /\ extract_idle

ClassifyNext ==
    \/ ViewsAutoCategorize
    \/ ScriptAutoCategorize
    \/ AutoNormalizeMerchant

ClassifySpec == ClassifyInit /\ [][ClassifyNext]_vars

---------------------------------------------------------------------------
(* Properties of classification *)

CategoryCalls == {"views.auto_categorize_transaction",
                  "recategorize.auto_categorize_transaction"}

ClassifyCalls == CategoryCalls \cup {"renormalize.auto_normalize_merchant"}

(* the transaction object handed to the last call *)
CallObject == last.before

(* the answer of rule r in the last call *)
CallMatch(r) ==
    IF last.op = "views.auto_categorize_transaction"
    THEN views_match_found(r, CallObject.description)
    ELSE script_matched(r, CallObject.description)

(* the rules of the last call that matched *)
CallMatching == {k \in DOMAIN last.rules : CallMatch(last.rules[k]) = "yes"}

(* the last call went through its rules (the script's function returns    *)
(* at once for a manually categorized transaction)                         *)
CallEvaluates ==
    /\ last.op \in ClassifyCalls
    /\ last.op = "recategorize.auto_categorize_transaction"
          => ~CallObject.manually_categorized

(* C5: a category pass reads exactly the active rules, in descending      *)
(* confidence order, and assigns category and confidence of the first     *)
(* rule that matches: no other active matching rule has a higher          *)
(* confidence, and an inactive rule is never the one assigned.            *)
C5_FirstActiveMatchWins ==
    (last.op \in CategoryCalls /\ CallEvaluates) =>
        /\ IsSortedDesc(last.rules)
        /\ \A k \in DOMAIN last.rules : last.rules[k].is_active
        /\ {last.rules[k] : k \in DOMAIN last.rules}
              = {patterns[i] : i \in {j \in DOMAIN patterns : patterns[j].is_active}}
        /\ CallMatching # {} =>
              \E k \in CallMatching :
                  /\ \A j \in CallMatching : k <= j
                  /\ \A j \in CallMatching :
                        last.rules[j].confidence <= last.rules[k].confidence
                  /\ last.out.save # <<>>
                  /\ txns[last.id].category = last.rules[k].category
                  /\ txns[last.id].category_confidence = last.rules[k].confidence

(* two active rules of different confidence matched, the one of the       *)
(* higher confidence being the later row of the table: the transaction    *)
(* carries the category of the higher                                     *)
C5_Witness ==
    /\ last.op = "views.auto_categorize_transaction"
    /\ Len(last.rules) = 2
    /\ CallMatching = {1, 2}
    /\ last.rules[1].confidence > last.rules[2].confidence
    /\ last.rules[1].id > last.rules[2].id
    /\ txns[last.id].category = last.rules[1].category
    /\ last.before.category # last.rules[1].category

(* C9: when no active rule matches, a classification call writes nothing: *)
(* the stored transaction is exactly what it was.                          *)
C9_NoMatchWritesNothing ==
    (last.op \in ClassifyCalls /\ CallMatching = {}) =>
        /\ last.out.save = <<>>
        /\ txns[last.id] = last.before

C9_Witness ==
    /\ last.op = "views.auto_categorize_transaction"
    /\ last.rules # <<>>
    /\ CallMatching = {}
    /\ last.before.category = "None"
    /\ txns[last.id].category = "None"
    /\ txns[last.id].category_confidence = 0

(* rule r is a regex rule that the last call could not compile *)
CallMalformed(r) == CallMatch(r) = "re.error"

WellFormedRules == SelectSeq(last.rules, LAMBDA r : ~CallMalformed(r))

(* C10: a malformed regex rule is a non-match for that rule only: the     *)
(* call does not raise, and it does what it would have done had the       *)
(* malformed rules not been in the table.                                  *)
C10_MalformedRegexSkipped ==
    (last.op \in CategoryCalls /\ \E k \in DOMAIN last.rules : CallMalformed(last.rules[k])) =>
        /\ ~last.out.raised
        /\ last.out = (IF last.op = "views.auto_categorize_transaction"
                       THEN views_auto_categorize_transaction(WellFormedRules, CallObject)
                       ELSE script_auto_categorize_transaction(WellFormedRules, CallObject))
        /\ txns[last.id] = (IF last.out.save = <<>> THEN last.before ELSE last.out.save[1])

(* a malformed rule came first and the rule after it, of a lower          *)
(* confidence, was applied                                                 *)
C10_Witness ==
    /\ last.op \in CategoryCalls
    /\ Len(last.rules) = 2
    /\ CallMalformed(last.rules[1])
    /\ last.rules[1].confidence > last.rules[2].confidence
    /\ CallMatching = {2}
    /\ txns[last.id].category = last.rules[2].category
    /\ last.before.category # last.rules[2].category

---------------------------------------------------------------------------
(* The stored transactions and the operations on them: the save batch of  *)
(* process_files, manual categorization through the API and the admin,    *)
(* edits of the rules, and the maintenance scripts.  A script iterates    *)
(* over the rows its query returned when the loop began, and save()       *)
(* writes every field of the object it holds.                              *)

MaxTxns == 2

DbDescriptions == { <<"A", "1">> }

DbPatterns == << TransactionPattern(1, <<<<"a">>, "contains">>, 9, TRUE),
                 TransactionPattern(2, <<<<"1">>, "ends_with">>, 5, TRUE) >>

ManualCategories == {"None", "Misc"}

(* views.categorize_transaction: the object after the request *)
categorize_transaction(transaction, category_id) ==
    IF category_id # "None"
    THEN [transaction EXCEPT !.category = category_id,
                             !.manually_categorized = TRUE,
                             !.category_confidence = 10]
    ELSE [transaction EXCEPT !.category = "None",
                             !.manually_categorized = FALSE,
                             !.category_confidence = 0]

(* TransactionAdmin.save_model after the form set obj.category *)
save_model(obj, category) ==
    IF category # obj.category /\ category # "None"
    THEN [obj EXCEPT !.category = category, !.manually_categorized = TRUE]
    ELSE [obj EXCEPT !.category = category]

(* the body of the loop of uncategorize_all_transactions *)
uncategorize(transaction) ==
    IF transaction.category # "None" \/ transaction.category_confidence > 0
    THEN Saved([transaction EXCEPT !.category = "None",
                                   !.category_confidence = 0,
                                   !.manually_categorized = FALSE])
    ELSE NoSave

(* the rows of a query, in id order, as the loop of a script holds them *)
Snapshot(table, ids) ==
    SelectSeq([i \in 1..Len(table) |-> [id |-> i, obj |-> table[i]]], LAMBDA r : r.id \in ids)

(* the query of recategorize_all_transactions *)
recategorize_query(table, force) ==
    IF force THEN Snapshot(table, {i \in DOMAIN table : ~table[i].manually_categorized})
    ELSE Snapshot(table, {i \in DOMAIN table : table[i].category = "None"})

NoScript == [name |-> "none"]

ScriptAfter(rows) ==
    IF Tail(rows) = <<>> THEN NoScript ELSE [script EXCEPT !.rows = Tail(rows)]

DbInit ==
    /\ ExtractIdleInit
    /\ ToolIdleInit
    /\ patterns = DbPatterns
    /\ merchant_patterns = <<>>
    /\ txns = <<>>
    /\ pending = <<>>
    /\ batch_rules = {}
    /\ script = NoScript
    /\ last = [op |-> "none"]

(* process_files hands the extracted transactions to save_transactions_to_db *)
StartBatch ==
    /\ pending = <<>>
    /\ \E n \in 1..(MaxTxns - Len(txns)) : pending' \in [1..n -> DbDescriptions]
    /\ batch_rules' = {}
    /\ last' = [op |-> "save_transactions_to_db"]
    /\ UNCHANGED <<patterns, merchant_patterns, txns, script>>
    /\ extract_idle

(* one iteration of save_transactions_to_db: create, then auto-categorize *)
BatchStep ==
    /\ pending # <<>>
    /\ \E rules \in filter_order_by(patterns) :
         LET id == Len(txns) + 1
             transaction == Transaction(Head(pending), "None", 0, FALSE)
             out == views_auto_categorize_transaction(rules, transaction)
         IN /\ txns' = Save(Append(txns, transaction), id, out)
            /\ batch_rules' = batch_rules \cup {{rules[k] : k \in DOMAIN rules}}
            /\ last' = [op |-> "views.auto_categorize_transaction", id |-> id,
                        before |-> transaction]
    /\ pending' = Tail(pending)
    /\ UNCHANGED <<patterns, merchant_patterns, script>>
    /\ extract_idle

(* POST categorize_transaction *)
CategorizeTransaction ==
    /\ \E id \in DOMAIN txns, category_id \in ManualCategories :
         /\ txns' = [txns EXCEPT ![id] = categorize_transaction(txns[id], category_id)]
         /\ last' = [op |-> "categorize_transaction"]
    /\ UNCHANGED <<patterns, merchant_patterns, pending, batch_rules, script>>
    /\ extract_idle

(* the admin changes the category of a transaction *)
AdminSaveTransaction ==
    /\ \E id \in DOMAIN txns, category \in ManualCategories :
         /\ category # txns[id].category
         /\ txns' = [txns EXCEPT ![id] = save_model(txns[id], category)]
         /\ last' = [op |-> "TransactionAdmin.save_model"]
    /\ UNCHANGED <<patterns, merchant_patterns, pending, batch_rules, script>>
    /\ extract_idle

(* the admin activates or deactivates a rule *)
AdminSavePattern ==
    /\ \E i \in DOMAIN patterns :
         patterns' = [patterns EXCEPT ![i].is_active = ~patterns[i].is_active]
    /\ last' = [op |-> "TransactionPatternAdmin.save_model"]
    /\ UNCHANGED <<merchant_patterns, txns, pending, batch_rules, script>>
    /\ extract_idle

(* recategorize_all_transactions(force) runs its query *)
StartRecategorize ==
    /\ script = NoScript
    /\ \E force \in BOOLEAN :
         LET rows == recategorize_query(txns, force)
         IN /\ rows # <<>>
            /\ script' = [name |-> "recategorize", force |-> force, rows |-> rows]
    /\ last' = [op |-> "recategorize_all_transactions"]
    /\ UNCHANGED <<patterns, merchant_patterns, txns, pending, batch_rules>>
    /\ extract_idle

(* one iteration of the loop of recategorize_all_transactions *)
RecategorizeStep ==
    /\ script.name = "recategorize"
    /\ \E rules \in filter_order_by(patterns) :
         LET id == Head(script.rows).id
             txn == Head(script.rows).obj
             obj == IF script.force
                    THEN [txn EXCEPT !.category = "None", !.category_confidence = 0]
                    ELSE txn
             out == script_auto_categorize_transaction(rules, obj)
         IN /\ txns' = Save(txns, id, out)
            /\ last' = [op |-> "recategorize.auto_categorize_transaction", id |-> id,
                        before |-> txns[id]]
    /\ script' = ScriptAfter(script.rows)
    /\ UNCHANGED <<patterns, merchant_patterns, pending, batch_rules>>
    /\ extract_idle

(* uncategorize_all_transactions runs its query *)
StartUncategorize ==
    /\ script = NoScript
    /\ txns # <<>>
    /\ script' = [name |-> "uncategorize", force |-> FALSE,
                  rows |-> Snapshot(txns, DOMAIN txns)]
    /\ last' = [op |-> "uncategorize_all_transactions"]
    /\ UNCHANGED <<patterns, merchant_patterns, txns, pending, batch_rules>>
    /\ extract_idle

(* one iteration of the loop of uncategorize_all_transactions *)
UncategorizeStep ==
    /\ script.name = "uncategorize"
    /\ LET id == Head(script.rows).id
           out == uncategorize(Head(script.rows).obj)
       IN /\ txns' = Save(txns, id, out)
          /\ last' = [op |-> "uncategorize_all_transactions"]
    /\ script' = ScriptAfter(script.rows)
    /\ UNCHANGED <<patterns, merchant_patterns, pending, batch_rules>>
    /\ extract_idle

DbNext ==
    \/ StartBatch
    \/ BatchStep
    \/ CategorizeTransaction
    \/ AdminSaveTransaction
    \/ AdminSavePattern
    \/ StartRecategorize
    \/ RecategorizeStep
    \/ StartUncategorize
    \/ UncategorizeStep

DbSpec == DbInit /\ [][DbNext]_vars

---------------------------------------------------------------------------
(* Properties of the stored transactions *)

(* C6: a category pass never changes the category or the confidence of a  *)
(* transaction whose stored manually_categorized flag is true.            *)
C6_ManualNeverReclassified ==
    (last.op \in CategoryCalls /\ last.before.manually_categorized) =>
        /\ txns[last.id].category = last.before.category
        /\ txns[last.id].category_confidence = last.before.category_confidence

(* C7: manually_categorized is a one-way latch: no step takes it from     *)
(* true back to false.                                                     *)
C7_ManualFlagLatch ==
    [][\A id \in DOMAIN txns :
          txns[id].manually_categorized => txns'[id].manually_categorized]_vars

(* C8: every transaction of one save batch is classified against the same *)
(* rule set.                                                               *)
C8_OneRuleSetPerBatch == Cardinality(batch_rules) <= 1

---------------------------------------------------------------------------
(* Format detection (views.detect_parser_type, views.detect_csv_bank_type). *)
(* A file name or a text is a sequence of words separated by one space;    *)
(* a keyword is a sequence of words too.                                    *)

MaxNameWords == 4
MaxTextWords == 1

NameWords == {"BI", "Checking", "GTQ", "Credit", "USD", "GyT", "BAM"}

TextWords == {"industrial", "bam", "credito", "$", "gyt"}

(* str.lower() on the words of the model *)
LowerWord(w) ==
    CASE w = "BI" -> "bi" [] w = "Checking" -> "checking" [] w = "GTQ" -> "gtq"
      [] w = "Credit" -> "credit" [] w = "USD" -> "usd" [] w = "GyT" -> "gyt"
      [] w = "BAM" -> "bam" [] OTHER -> w

LowerWords(s) == [i \in 1..Len(s) |-> LowerWord(s[i])]

(* the keyword words that begin, end, or lie in a word of the model: only *)
(* "credit" is a proper part of another word ("credito")                   *)
PrefixesOf(w) == IF w = "credito" THEN {"credito", "credit"} ELSE {w}

SuffixesOf(w) == {w}

InfixesOf(w) == PrefixesOf(w) \cup SuffixesOf(w)

(* keyword in s, for strings: the first word of the keyword may end a     *)
(* word of s and its last word may begin one                               *)
KeywordIn(keyword, s) ==
    LET n == Len(keyword)
    IN IF n = 1 THEN \E i \in 1..Len(s) : keyword[1] \in InfixesOf(s[i])
       ELSE \E i \in 0..(Len(s) - n) :
               /\ keyword[1] \in SuffixesOf(s[i + 1])
               /\ keyword[n] \in PrefixesOf(s[i + n])
               /\ \A k \in 2..(n - 1) : keyword[k] = s[i + k]

AnyKeywordIn(keywords, s) == \E keyword \in keywords : KeywordIn(keyword, s)

filename_patterns ==
    << <<<<"gyt", "credit">>, <<"gyt", "credit">>>>,
       <<<<"bi", "checking", "gtq">>, <<"industrial", "checking">>>>,
       <<<<"bi", "checking", "usd">>, <<"industrial", "usd_checking">>>>,
       <<<<"bi", "credit", "gtq">>, <<"industrial", "credit">>>>,
       <<<<"bi", "credit", "usd">>, <<"industrial", "credit_usd">>>>,
       <<<<"bam", "credit">>, <<"bam", "credit">>>> >>

industrial_keywords == {<<"banco", "industrial">>, <<"industrial">>, <<"bi">>}

credit_keywords == {<<"tarjeta", "de", "credito">>, <<"credit", "card">>, <<"tarjeta">>,
                    <<"credit">>, <<"tc">>, <<"credito">>}

usd_keywords == {<<"$">>, <<"usd">>, <<"dolar">>, <<"dollar">>, <<"dolares">>}

checking_keywords == {<<"cuenta", "corriente">>, <<"checking">>, <<"corriente">>,
                      <<"monetaria">>, <<"ahorro">>}

bam_keywords == {<<"bam">>, <<"banco", "agromercantil">>, <<"agromercantil">>}

gyt_keywords == {<<"gyt">>, <<"g&t">>, <<"gyp">>, <<"g", "y", "t">>, <<"continental">>}

(* (None, None) *)
Unknown == <<"None", "None">>

(* the entries of the filename table found in the lowercased file name *)
FilenameMatches(filename) ==
    {i \in DOMAIN filename_patterns : KeywordIn(filename_patterns[i][1], LowerWords(filename))}

(* views.py 116-159: content and file name together *)
detect_by_content(text_content, filename) ==
    LET combined_content == LowerWords(text_content) \o LowerWords(filename)
        usd == AnyKeywordIn(usd_keywords, combined_content)
    IN IF AnyKeywordIn(industrial_keywords, combined_content)
       THEN IF AnyKeywordIn(credit_keywords, combined_content)
            THEN (IF usd THEN <<"industrial", "credit_usd">> ELSE <<"industrial", "credit">>)
            ELSE IF AnyKeywordIn(checking_keywords, combined_content)
            THEN (IF usd THEN <<"industrial", "usd_checking">> ELSE <<"industrial", "checking">>)
            ELSE (IF usd THEN <<"industrial", "usd_checking">> ELSE <<"industrial", "checking">>)
       ELSE IF AnyKeywordIn(bam_keywords, combined_content) THEN <<"bam", "credit">>
       ELSE IF AnyKeywordIn(gyt_keywords, combined_content) THEN <<"gyt", "credit">>
       ELSE Unknown

(* a detection that trusts the content before the file name *)
detect_parser_type_content_first(text_content, filename) ==
    LET by_content == detect_by_content(text_content, <<>>)
        matches == FilenameMatches(filename)
    IN IF by_content # Unknown THEN [result |-> by_content, content_inspected |-> TRUE]
       ELSE IF matches # {}
       THEN [result |-> filename_patterns[CHOOSE i \in matches : \A j \in matches : i <= j][2],
             content_inspected |-> TRUE]
       ELSE [result |-> Unknown, content_inspected |-> TRUE]

(* views.detect_parser_type *)
detect_parser_type(text_content, filename) ==
    LET matches == FilenameMatches(filename)
    IN IF matches # {}
       THEN [result |-> filename_patterns[CHOOSE i \in matches : \A j \in matches : i <= j][2],
             content_inspected |-> FALSE]
       ELSE [result |-> detect_by_content(text_content, filename), content_inspected |-> TRUE]

---------------------------------------------------------------------------
(* A CSV file: what each candidate encoding makes of its bytes, the        *)
(* columns of its header row, whether the date-range line is there and     *)
(* whether it has fewer than ten lines.  Under an encoding the bytes are   *)
(*   "error"    not decodable (UnicodeDecodeError),                        *)
(*   "garbled"  decodable, but the text is not the text of the file,       *)
(*   "unparsed" decoded by open() and not readable by pandas.read_csv,     *)
(*   "text"     decoded by both.                                           *)

encodings == <<"utf-8", "utf-16-be", "utf-16-le", "latin-1", "cp1252">>

GtqColumns == {"Fecha", "TT", "Descripcion", "No. Doc", "Debe (Q.)", "Haber (Q.)", "Saldo (Q.)"}

UsdColumns == {"Fecha", "TT", "Descripcion", "No. Doc", "Debe (USD)", "Haber (USD)",
               "Saldo (USD)"}

(* the header rows of the model; {} is a file without any header line *)
Headers == { GtqColumns, UsdColumns, GtqColumns \ {"No. Doc"}, GtqColumns \ {"Haber (Q.)"},
             GtqColumns \ {"Saldo (Q.)"}, {"Fecha", "Descripcion"}, {} }

Readable(outcome) == outcome \in {"unparsed", "text"}

(* latin-1 maps every byte to a character; the text of a UTF-16 file is   *)
(* not text under any other candidate; what reads as UTF-8 or as          *)
(* Windows-1252 also reads as Latin-1                                      *)
Decodings ==
    { d \in [DOMAIN encodings -> {"error", "garbled", "unparsed", "text"}] :
        /\ d[4] # "error"
        /\ \A i \in {2, 3} : Readable(d[i]) => \A j \in DOMAIN encodings \ {i} : ~Readable(d[j])
        /\ \A i \in {1, 5} : Readable(d[i]) => Readable(d[4]) }

CsvFiles ==
    [decode : Decodings, header : Headers, date_range : BOOLEAN, short : BOOLEAN]

(* the parts of a column name, as written and lowercased, that the code   *)
(* looks for                                                               *)
PartsOf(column) ==
    CASE column = "Fecha" -> {"Fecha", "fecha"}
      [] column = "TT" -> {"TT", "tt"}
      [] column = "Descripcion" -> {"Descripci"}
      [] column = "No. Doc" -> {"No. Doc"}
      [] column = "Debe (Q.)" -> {"Debe", "debe", "debe (q.)"}
      [] column = "Haber (Q.)" -> {"Haber", "haber", "haber (q.)"}
      [] column = "Saldo (Q.)" -> {"Saldo", "saldo", "saldo (q.)"}
      [] column = "Debe (USD)" -> {"Debe", "debe", "debe (usd)"}
      [] column = "Haber (USD)" -> {"Haber", "haber", "haber (usd)"}
      [] column = "Saldo (USD)" -> {"Saldo", "saldo", "saldo (usd)"}

(* keyword in line, for the header line of the file *)
InHeader(keyword, header) == \E column \in header : keyword \in PartsOf(column)

(* the first candidate, in order, that satisfies Accepts; 0 when none does *)
FirstEncoding(Accepts(_)) ==
    LET ok == {i \in DOMAIN encodings : Accepts(i)}
    IN IF ok = {} THEN 0 ELSE CHOOSE i \in ok : \A j \in ok : i <= j

usd_indicators == {"debe (usd)", "haber (usd)", "debe ($)", "haber ($)", "saldo (usd)",
                   "saldo ($)"}

(* a detection that takes the header token alone for the bank's structure *)
detect_csv_bank_type_guess(file) ==
    LET readable(i) == Readable(file.decode[i])
                          /\ InHeader("fecha", file.header) /\ InHeader("tt", file.header)
    IN IF FirstEncoding(readable) = 0 THEN Unknown
       ELSE IF \E indicator \in usd_indicators : InHeader(indicator, file.header)
       THEN <<"industrial", "usd_checking">>
       ELSE <<"industrial", "checking">>

(* views.detect_csv_bank_type; open(..., errors='replace') never raises   *)
(* on the bytes, so "error" reads as garbled text there                    *)
detect_csv_bank_type(file) ==
    LET readable(i) == Readable(file.decode[i])
                          /\ InHeader("fecha", file.header) /\ InHeader("tt", file.header)
        has_bi_structure ==
            \A keyword \in {"fecha", "tt", "debe", "haber", "saldo"} :
                InHeader(keyword, file.header)
    IN IF FirstEncoding(readable) = 0 THEN Unknown
       ELSE IF ~has_bi_structure THEN Unknown
       ELSE IF \E indicator \in usd_indicators : InHeader(indicator, file.header)
       THEN <<"industrial", "usd_checking">>
       ELSE <<"industrial", "checking">>

---------------------------------------------------------------------------
(* Detection applied to every file name, text and CSV file of the model   *)

Strings(words, n) == UNION {[1..k -> words] : k \in 0..n}

(* a call that has been made and has not returned *)
Called(fn, args) == [fn |-> fn, pc |-> "called", args |-> args]

Returned(request, out) == [fn |-> request.fn, pc |-> "returned", args |-> request.args, out |-> out]

Returns(fn) == call.fn = fn /\ call.pc = "returned"

DetectParserType ==
    /\ call.fn = "detect_parser_type" /\ call.pc = "called"
    /\ call' = Returned(call, detect_parser_type(call.args.text_content, call.args.filename))
    /\ UNCHANGED <<extract_vars, db_vars, proc>>

DetectCsvBankType ==
    /\ call.fn = "detect_csv_bank_type" /\ call.pc = "called"
    /\ call' = Returned(call, [result |-> detect_csv_bank_type(call.args.file)])
    /\ UNCHANGED <<extract_vars, db_vars, proc>>

DetectInit ==
    /\ ExtractIdleInit /\ DbIdleInit
    /\ proc = [pc |-> "idle"]
    /\ \/ \E text_content \in Strings(TextWords, MaxTextWords),
             filename \in Strings(NameWords, MaxNameWords) :
            call = Called("detect_parser_type",
                          [text_content |-> text_content, filename |-> filename])
       \/ \E file \in CsvFiles : call = Called("detect_csv_bank_type", [file |-> file])

DetectNext == DetectParserType \/ DetectCsvBankType

DetectSpec == DetectInit /\ [][DetectNext]_vars

(* C11: when the lowercased file name contains an entry of the filename   *)
(* table, detection returns the pair of the first such entry in table     *)
(* order without looking at the content, whatever the content is.         *)
C11_FilenameWins ==
    (Returns("detect_parser_type") /\ FilenameMatches(call.args.filename) # {}) =>
        /\ \E i \in FilenameMatches(call.args.filename) :
              /\ \A j \in FilenameMatches(call.args.filename) : i <= j
              /\ call.out.result = filename_patterns[i][2]
        /\ ~call.out.content_inspected

(* the file name holds two entries of the table and the content names a   *)
(* third bank: the first entry wins                                        *)
C11_Witness ==
    /\ Returns("detect_parser_type")
    /\ FilenameMatches(call.args.filename) = {1, 6}
    /\ call.args.text_content = <<"industrial">>
    /\ call.out.result = <<"gyt", "credit">>

(* C12: detection returns Unknown when no rule fires: for a PDF when no   *)
(* filename entry and no bank keyword is found, for a CSV when no         *)
(* encoding is readable or one of fecha, tt, debe, haber, saldo is absent. *)
C12_UnknownWhenNoRule ==
    /\ (Returns("detect_parser_type")
          /\ FilenameMatches(call.args.filename) = {}
          /\ ~AnyKeywordIn(industrial_keywords \cup bam_keywords \cup gyt_keywords,
                           LowerWords(call.args.text_content) \o LowerWords(call.args.filename)))
         => call.out.result = Unknown
    /\ (Returns("detect_csv_bank_type")
          /\ (\/ \A i \in DOMAIN encodings : call.args.file.decode[i] \in {"error", "garbled"}
              \/ \E keyword \in {"fecha", "tt", "debe", "haber", "saldo"} :
                    ~InHeader(keyword, call.args.file.header)))
         => call.out.result = Unknown

(* a CSV whose header lacks only the Saldo column is not guessed *)
C12_Witness ==
    /\ Returns("detect_csv_bank_type")
    /\ call.args.file.decode[1] = "text"
    /\ call.args.file.header = GtqColumns \ {"Saldo (Q.)"}
    /\ call.out.result = Unknown

---------------------------------------------------------------------------
(* ParserFactory on every request of the model, the supported pairs, an   *)
(* upper-case variant, None and an unknown name among them                 *)

FactoryBankTypes == {"industrial", "bam", "gyt", "INDUSTRIAL", "None", "chase"}

FactoryAccountTypes == {"checking", "usd_checking", "credit", "credit_usd", "CHECKING",
                        "None", "savings"}

FactoryPaths == {"test.pdf", "statement.pdf"}

(* the object a factory method returns, or the ValueError it raises with  *)
(* both values in its message; BaseParser.__init__ keeps the path          *)
Built(made, bank_type, account_type, path) ==
    IF made.cls = "ValueError"
    THEN [cls |-> "ValueError", bank_type |-> bank_type, account_type |-> account_type]
    ELSE [cls |-> made.cls, pdf_path |-> path, is_spouse |-> made.is_spouse]

FactoryGetParser ==
    /\ call.fn = "get_parser" /\ call.pc = "called"
    /\ call' = Returned(call, Built(get_parser(call.args.bank_type, call.args.account_type,
                                               call.args.is_spouse),
                                    call.args.bank_type, call.args.account_type,
                                    call.args.pdf_path))
    /\ UNCHANGED <<extract_vars, db_vars, proc>>

FactoryGetCsvParser ==
    /\ call.fn = "get_csv_parser" /\ call.pc = "called"
    /\ call' = Returned(call, Built(get_csv_parser(call.args.bank_type, call.args.account_type,
                                                   call.args.is_spouse),
                                    call.args.bank_type, call.args.account_type,
                                    call.args.pdf_path))
    /\ UNCHANGED <<extract_vars, db_vars, proc>>

FactoryInit ==
    /\ ExtractIdleInit /\ DbIdleInit
    /\ proc = [pc |-> "idle"]
    /\ \E fn \in {"get_parser", "get_csv_parser"}, bank_type \in FactoryBankTypes,
          account_type \in FactoryAccountTypes, pdf_path \in FactoryPaths,
          is_spouse \in BOOLEAN :
         call = Called(fn, [bank_type |-> bank_type, account_type |-> account_type,
                            pdf_path |-> pdf_path, is_spouse |-> is_spouse])

FactoryNext == FactoryGetParser \/ FactoryGetCsvParser

FactorySpec == FactoryInit /\ [][FactoryNext]_vars

(* the extractor of each supported pair *)
ExtractorOf(bank_type, account_type) ==
    CASE bank_type = "industrial" /\ account_type = "checking" -> "BancoIndustrialCheckingParser"
      [] bank_type = "industrial" /\ account_type = "usd_checking" -> "BIUSDCheckingParser"
      [] bank_type = "industrial" /\ account_type = "credit" -> "BancoIndustrialCreditParser"
      [] bank_type = "industrial" /\ account_type = "credit_usd" -> "BancoIndustrialCreditUSDParser"
      [] bank_type = "bam" /\ account_type = "credit" -> "BAMCreditParser"
      [] bank_type = "gyt" /\ account_type = "credit" -> "GyTCreditParser"

CsvExtractorOf(account_type) ==
    IF account_type = "checking" THEN "BICheckingCSVParser" ELSE "BIUSDCheckingCSVParser"

SupportedPairs ==
    ({"industrial"} \X {"checking", "usd_checking", "credit", "credit_usd"})
        \cup {<<"bam", "credit">>, <<"gyt", "credit">>}

SupportedCsvPairs == {"industrial"} \X {"checking", "usd_checking"}

RaisesNaming(out, args) ==
    out = [cls |-> "ValueError", bank_type |-> args.bank_type,
           account_type |-> args.account_type]

(* C13: get_parser returns the extractor of the requested pair for the    *)
(* six supported pairs, carrying the given path and secondary-holder      *)
(* flag, and raises ValueError naming the pair for every other input;     *)
(* get_csv_parser accepts only industrial x {checking, usd_checking}.     *)
C13_FactoryContract ==
    /\ Returns("get_parser") =>
         IF <<call.args.bank_type, call.args.account_type>> \in SupportedPairs
         THEN call.out = [cls |-> ExtractorOf(call.args.bank_type, call.args.account_type),
                          pdf_path |-> call.args.pdf_path,
                          is_spouse |-> call.args.is_spouse]
         ELSE RaisesNaming(call.out, call.args)
    /\ Returns("get_csv_parser") =>
         IF <<call.args.bank_type, call.args.account_type>> \in SupportedCsvPairs
         THEN call.out = [cls |-> CsvExtractorOf(call.args.account_type),
                          pdf_path |-> call.args.pdf_path,
                          is_spouse |-> call.args.is_spouse]
         ELSE RaisesNaming(call.out, call.args)

---------------------------------------------------------------------------
(* The account label of each extractor and the label with the qualifier   *)

AccountLabel(cls) ==
    CASE cls = "BancoIndustrialCheckingParser" -> "Industrial GTQ"
      [] cls = "BIUSDCheckingParser" -> "Industrial USD 9384"
      [] cls = "BancoIndustrialCreditUSDParser" -> "BI 1116 USD"
      [] cls = "GyTCreditParser" -> "GyT 5978"
      [] cls = "BAMCreditParser" -> "BAM Credit Card"
      [] cls = "BICheckingCSVParser" -> "Industrial GTQ"

WithQualifier(label) ==
    CASE label = "Industrial GTQ" -> "Industrial GTQ (Spouse)"
      [] label = "Industrial USD 9384" -> "Industrial USD 9384 (Spouse)"
      [] label = "BI 1116 USD" -> "BI 1116 USD (Spouse)"
      [] label = "GyT 5978" -> "GyT 5978 (Spouse)"
      [] label = "BAM Credit Card" -> "BAM Credit Card (Spouse)"

(* C14: for every supported format the records extracted with the         *)
(* secondary-holder flag differ from those extracted without it in        *)
(* Account Name only, which carries the qualifier suffix when the flag    *)
(* given to the factory is true.                                          *)
C14_FlagQualifiesAccountName ==
    call.fn \in {"get_parser", "get_csv_parser"} =>
        \A i \in 1..Len(transactions) :
            transactions[i].Account =
                IF call.is_spouse THEN WithQualifier(AccountLabel(parser.cls))
                ELSE AccountLabel(parser.cls)

---------------------------------------------------------------------------
(* PDFProcessor.  A text is a sequence of runs of characters, each run    *)
(* of whitespace or of other characters; "" is the empty sequence.         *)

Run(ws, n) == [ws |-> ws, n |-> n]

RECURSIVE TextLen(_)
TextLen(text) == IF text = <<>> THEN 0 ELSE Head(text).n + TextLen(Tail(text))

(* str.strip(): leading and trailing whitespace goes, inner stays *)
strip(text) ==
    LET inked == {i \in DOMAIN text : ~text[i].ws}
    IN IF inked = {} THEN <<>>
       ELSE SubSeq(text, CHOOSE i \in inked : \A j \in inked : i <= j,
                         CHOOSE i \in inked : \A j \in inked : i >= j)

(* '\n'.join(full_text) *)
RECURSIVE join(_)
join(full_text) ==
    IF full_text = <<>> THEN <<>>
    ELSE IF Len(full_text) = 1 THEN full_text[1]
    ELSE full_text[1] \o <<Run(TRUE, 1)>> \o join(Tail(full_text))

MIN_TEXT == 50

(* bool(text and len(text.strip()) >= 50) *)
is_valid_text(text) == text # <<>> /\ TextLen(strip(text)) >= MIN_TEXT

(* what page.extract_text() or '' gives for the pages of the model *)
PageTexts ==
    { <<>>, <<Run(TRUE, 3)>>, <<Run(FALSE, 9)>>, <<Run(FALSE, 24)>>, <<Run(FALSE, 25)>>,
      <<Run(FALSE, 50)>>, <<Run(FALSE, 20), Run(TRUE, 10), Run(FALSE, 20)>>,
      <<Run(TRUE, 30), Run(FALSE, 45), Run(TRUE, 30)>> }

(* what pytesseract.image_to_string gives for a page image *)
OcrTexts == { <<>>, <<Run(FALSE, 60), Run(TRUE, 1)>> }

WRAPPED == "Failed to process PDF"

(* except Exception as e: raise Exception(...), with a retry of the call  *)
(* in place of the raise                                                   *)
process_except_retry(p) ==
    IF p.extract_runs < 2 THEN [p EXCEPT !.pc = "called"]
    ELSE [p EXCEPT !.pc = "raised", !.errors = Append(@, WRAPPED)]

(* except Exception as e: raise Exception(f"Failed to process PDF: ...") *)
process_except(p) == [p EXCEPT !.pc = "raised", !.errors = Append(@, WRAPPED)]

(* text = self._extract_text(pdf_path) *)
ProcessExtractText ==
    /\ proc.pc = "called"
    /\ proc' = [proc EXCEPT !.pc = "extracted", !.text = join(proc.pages),
                            !.extract_runs = @ + 1]
    /\ UNCHANGED <<extract_vars, db_vars, call>>

(* pdfplumber.open or page.extract_text raises *)
ProcessExtractRaises ==
    /\ proc.pc = "called"
    /\ proc' = process_except([proc EXCEPT !.extract_runs = @ + 1])
    /\ UNCHANGED <<extract_vars, db_vars, call>>

(* if self._is_valid_text(text): return text *)
ProcessReturnText ==
    /\ proc.pc = "extracted" /\ is_valid_text(proc.text)
    /\ proc' = [proc EXCEPT !.pc = "returned", !.result = proc.text]
    /\ UNCHANGED <<extract_vars, db_vars, call>>

(* return self._process_with_ocr(pdf_path) *)
ProcessWithOcr ==
    /\ proc.pc = "extracted" /\ ~is_valid_text(proc.text)
    /\ proc' = [proc EXCEPT !.pc = "returned", !.result = join(proc.ocr),
                            !.ocr_runs = @ + 1]
    /\ UNCHANGED <<extract_vars, db_vars, call>>

(* rasterization or tesseract raises *)
ProcessOcrRaises ==
    /\ proc.pc = "extracted" /\ ~is_valid_text(proc.text)
    /\ proc' = process_except([proc EXCEPT !.ocr_runs = @ + 1])
    /\ UNCHANGED <<extract_vars, db_vars, call>>

PdfInit ==
    /\ ExtractIdleInit /\ DbIdleInit
    /\ call = [fn |-> "none"]
    /\ \E n \in 0..MaxPages :
         \E pages \in [1..n -> PageTexts], ocr \in [1..n -> OcrTexts] :
            proc = [pc |-> "called", pages |-> pages, ocr |-> ocr, text |-> <<>>,
                    result |-> <<>>, extract_runs |-> 0, ocr_runs |-> 0, errors |-> <<>>]

PdfNext ==
    \/ ProcessExtractText
    \/ ProcessExtractRaises
    \/ ProcessReturnText
    \/ ProcessWithOcr
    \/ ProcessOcrRaises

PdfSpec == PdfInit /\ [][PdfNext]_vars

(* the characters of a text that are not whitespace *)
RECURSIVE NonWhitespace(_)
NonWhitespace(text) ==
    IF text = <<>> THEN 0
    ELSE (IF Head(text).ws THEN 0 ELSE Head(text).n) + NonWhitespace(Tail(text))

(* C15: process returns the directly extracted text exactly when that     *)
(* text has at least 50 non-whitespace characters; with fewer the result  *)
(* is the per-page OCR output joined in page order.                       *)
C15_DirectTextIffFiftyInked ==
    proc.pc = "returned" =>
        IF NonWhitespace(join(proc.pages)) >= 50
        THEN proc.result = join(proc.pages) /\ proc.ocr_runs = 0
        ELSE proc.result = join(proc.ocr) /\ proc.ocr_runs = 1

(* C16: in one call of process, direct extraction runs exactly once and   *)
(* first, OCR runs at most once and only after the direct text was judged *)
(* invalid, and a failure of either path ends the call with one wrapped   *)
(* 'Failed to process PDF' error, without a retry.                        *)
C16_OneExtractionOneOcrNoRetry ==
    /\ proc.extract_runs <= 1 /\ proc.ocr_runs <= 1
    /\ proc.pc # "called" => proc.extract_runs = 1
    /\ proc.pc = "called" => proc.extract_runs = 0 /\ proc.ocr_runs = 0
    /\ proc.ocr_runs = 1 =>
          /\ proc.extract_runs = 1
          /\ proc.text = join(proc.pages)
          /\ ~is_valid_text(proc.text)
    /\ proc.pc = "raised" => proc.errors = <<WRAPPED>>
    /\ proc.pc # "raised" => proc.errors = <<>>

(* the direct text was invalid and OCR failed: one error, one run of each *)
C16_Witness ==
    /\ proc.pc = "raised"
    /\ proc.extract_runs = 1 /\ proc.ocr_runs = 1
    /\ proc.errors = <<WRAPPED>>

---------------------------------------------------------------------------
(* Export of extracted records: BaseParser.to_csv, the two writers of     *)
(* the batch tool, the combined CSV of process_files and the stored row   *)

MaxExport == 2

(* records as the extractors return them; the records of the model carry  *)
(* no Date, so all are of one day                                          *)
ExtractedRecords ==
    {BIChecking_transaction(line, prev, FALSE) :
        line \in {l \in CheckingLines : l.form = "ok" /\ l.noise = "none"},
        prev \in {<<>>, <<Milli(150)>>}}
    \cup {GyT_transaction(line, FALSE) :
            line \in {l \in GyTLines : l.form = "ok" /\ l.noise = "none" /\ l.amt = 250}}
    \cup UNION {{t[i] : i \in DOMAIN t} : t \in {BAM_transaction(line) : line \in BAMLines}}
    \cup UNION {{t[i] : i \in DOMAIN t} :
                  t \in {BICsv_parse_transaction_row(row) : row \in CsvRows}}

Row(t, amount) == [Amount |-> amount, Type |-> t.Type, Account |-> t.Account]

(* the order of Account Name under sort_values *)
AccountRank(account) ==
    CASE account = "BAM Credit Card" -> 1
      [] account = "GyT 5978" -> 2
      [] account = "Industrial GTQ" -> 3

(* df.sort_values(['Date', 'Account Name']): the rows in an order sorted  *)
(* by account; the order of rows of one day and one account is any        *)
sort_values(rows) ==
    LET n == Len(rows)
        orders == {p \in [1..n -> 1..n] : \A i, j \in 1..n : i # j => p[i] # p[j]}
    IN {sorted \in {[i \in 1..n |-> rows[p[i]]] : p \in orders} :
          \A i, j \in 1..n : i < j => AccountRank(sorted[i].Account)
                                         <= AccountRank(sorted[j].Account)}

(* mainbundlev2.create_csv_file: 'Amount': [abs(t['Amount']) ...] *)
create_csv_file(records) ==
    [i \in DOMAIN records |-> Row(records[i], Abs(records[i].Amount))]

(* BaseParser.to_csv: pd.DataFrame(data), only Date is converted *)
to_csv(data) == [i \in DOMAIN data |-> Row(data[i], data[i].Amount)]

(* process_files: the file name is appended to Account Name, the records  *)
(* go to pd.DataFrame(all_transactions).to_csv as they are                 *)
process_files_csv(all_transactions, filename) ==
    [i \in DOMAIN all_transactions |->
        [Amount |-> all_transactions[i].Amount, Type |-> all_transactions[i].Type,
         Account |-> <<all_transactions[i].Account, filename>>]]

(* save_transactions_to_db: amount=transaction_data.get('Amount', 0) *)
save_transactions_to_db(records) ==
    [i \in DOMAIN records |-> Row(records[i], records[i].Amount)]

ExportFns == {"to_csv", "create_csv_file", "create_combined_csv", "process_files",
              "save_transactions_to_db"}

BaseParserToCsv ==
    /\ call.fn = "to_csv" /\ call.pc = "called"
    /\ call' = Returned(call, to_csv(call.args.transactions))
    /\ UNCHANGED <<extract_vars, db_vars, proc>>

CreateCsvFile ==
    /\ call.fn = "create_csv_file" /\ call.pc = "called"
    /\ call' = Returned(call, create_csv_file(call.args.transactions))
    /\ UNCHANGED <<extract_vars, db_vars, proc>>

CreateCombinedCsv ==
    /\ call.fn = "create_combined_csv" /\ call.pc = "called"
    /\ \E sorted \in sort_values(create_csv_file(call.args.transactions)) :
          call' = Returned(call, sorted)
    /\ UNCHANGED <<extract_vars, db_vars, proc>>

ProcessFilesCsv ==
    /\ call.fn = "process_files" /\ call.pc = "called"
    /\ call' = Returned(call, process_files_csv(call.args.transactions, "statement.pdf"))
    /\ UNCHANGED <<extract_vars, db_vars, proc>>

SaveTransactionsToDb ==
    /\ call.fn = "save_transactions_to_db" /\ call.pc = "called"
    /\ call' = Returned(call, save_transactions_to_db(call.args.transactions))
    /\ UNCHANGED <<extract_vars, db_vars, proc>>

ExportInit ==
    /\ ExtractIdleInit /\ DbIdleInit
    /\ proc = [pc |-> "idle"]
    /\ \E fn \in ExportFns, extracted \in Strings(ExtractedRecords, MaxExport) :
         call = Called(fn, [transactions |-> extracted])

ExportNext ==
    \/ BaseParserToCsv
    \/ CreateCsvFile
    \/ CreateCombinedCsv
    \/ ProcessFilesCsv
    \/ SaveTransactionsToDb

ExportSpec == ExportInit /\ [][ExportNext]_vars

(* C17: every exported record has a non-negative Amount on every export   *)
(* path: to_csv, create_csv_file, create_combined_csv, the combined CSV   *)
(* of process_files and the amount stored for each saved transaction.     *)
C17_ExportedAmountNonNegative ==
    (call.fn \in ExportFns /\ call.pc = "returned") =>
        \A i \in DOMAIN call.out : call.out[i].Amount >= 0

---------------------------------------------------------------------------
(* BICheckingCSVParser.extract_data and views.validate_csv_file on the    *)
(* CSV files of the model, and the CSV branch of process_files            *)

(* the data rows of every file of the model *)
SampleRows ==
    << Line("none", "ok", "NC", "", -1, 100000, 0),
       Line("none", "ok", "ND", "", 5000, -1, 0),
       Line("none", "ok", "NC", "", 5000, -1, 0) >>

RECURSIVE ParseRows(_)
ParseRows(rows) ==
    IF rows = <<>> THEN <<>>
    ELSE BICsv_parse_transaction_row(Head(rows)) \o ParseRows(Tail(rows))

(* any('Fecha' in line or 'fecha' in line.lower() for line in lines[:15]) *)
ShowsToken(file) == InHeader("Fecha", file.header) \/ InHeader("fecha", file.header)

(* a resolver that keeps trying after a candidate was accepted *)
working_encoding_last(file) ==
    LET ok == {i \in DOMAIN encodings : file.decode[i] = "text" /\ ShowsToken(file)}
    IN IF ok = {} THEN 0 ELSE CHOOSE i \in ok : \A j \in ok : i >= j

(* bi_checking_csv_parser.py 20-41: open() and readlines() decode the     *)
(* file, the token is looked for, pandas reads the file; break at the     *)
(* first candidate that passes, 0 when none does                           *)
working_encoding(file) ==
    LET accepts(i) == file.decode[i] = "text" /\ ShowsToken(file)
    IN FirstEncoding(accepts)

(* 'Fecha' in line and 'TT' in line and 'Descripci' in line *)
header_found(file) ==
    InHeader("Fecha", file.header) /\ InHeader("TT", file.header)
        /\ InHeader("Descripci", file.header)

Raised(error, encoding) ==
    [raised |-> TRUE, error |-> error, encoding |-> encoding, year |-> "none",
     transactions |-> <<>>]

(* _validate_columns: the first complaint, "" when there is none *)
validate_columns(columns) ==
    IF ~\E col \in columns : "Descripci" \in PartsOf(col) THEN "Missing 'Descripcion' column"
    ELSE IF ~(\E col \in columns : "Debe" \in PartsOf(col))
             \/ ~(\E col \in columns : "Haber" \in PartsOf(col))
    THEN "Missing 'Debe' or 'Haber' columns"
    ELSE IF "Fecha" \notin columns THEN "Missing required column: Fecha"
    ELSE IF "TT" \notin columns THEN "Missing required column: TT"
    ELSE IF "No. Doc" \notin columns THEN "Missing required column: No. Doc"
    ELSE ""

(* BICheckingCSVParser.extract_data; without the date-range line the      *)
(* year is the current one and nothing is raised                           *)
BICsv_extract_data(file) ==
    LET working == working_encoding(file)
    IN IF working = 0 THEN Raised("Could not read CSV file with any known encoding", 0)
       ELSE IF ~header_found(file)
       THEN Raised("Could not find CSV header line with 'Fecha,TT,Descripcion'", working)
       ELSE IF validate_columns(file.header) # ""
       THEN Raised(validate_columns(file.header), working)
       ELSE [raised |-> FALSE, error |-> "", encoding |-> working,
             year |-> IF file.date_range THEN "date range" ELSE "current year",
             transactions |-> ParseRows(SampleRows)]

(* views.validate_csv_file: "" when the file passes, else the message;    *)
(* open(..., errors='replace') reads undecodable bytes as garbled text     *)
validate_csv_file(file) ==
    LET reads(i) == Readable(file.decode[i]) /\ ShowsToken(file)
    IN IF FirstEncoding(reads) = 0 THEN "Could not read CSV file with any known encoding"
       ELSE IF file.short THEN "CSV file is too short"
       ELSE IF header_found(file)
               /\ ~(InHeader("Debe", file.header) /\ InHeader("Haber", file.header))
       THEN "Missing required columns: Debe or Haber"
       ELSE IF ~header_found(file) THEN "Invalid CSV format: Could not find header row"
       ELSE IF ~file.date_range THEN "Invalid CSV format: Missing date range line"
       ELSE ""

FileResult(status, error_message, extracted) ==
    [status |-> status, error_message |-> error_message, transactions |-> extracted]

(* process_files, the branch for file_type == 'csv', for one uploaded     *)
(* file; typed: bank and account type were given at upload.  The module   *)
(* of BIUSDCheckingCSVParser is not in the repository: its extract_data   *)
(* either raises or returns records                                        *)
process_files_csv_branch(file, typed) ==
    LET detected == IF typed THEN <<"industrial", "checking">> ELSE detect_csv_bank_type(file)
        made == get_csv_parser(detected[1], detected[2], FALSE)
        extracted == BICsv_extract_data(file)
    IN IF validate_csv_file(file) # ""
       THEN {FileResult("error", validate_csv_file(file), <<>>)}
       ELSE IF detected = Unknown
       THEN {FileResult("error", "Could not auto-detect parser type for CSV file", <<>>)}
       ELSE IF made.cls = "BIUSDCheckingCSVParser"
       THEN {FileResult("error", "raised", <<>>),
             FileResult("completed", "", ParseRows(SampleRows))}
       ELSE IF extracted.raised THEN {FileResult("error", extracted.error, <<>>)}
       ELSE IF extracted.transactions = <<>>
       THEN {FileResult("error", "No transactions extracted", <<>>)}
       ELSE {FileResult("completed", "", extracted.transactions)}

ExtractData ==
    /\ call.fn = "extract_data" /\ call.pc = "called"
    /\ call' = Returned(call, BICsv_extract_data(call.args.file))
    /\ UNCHANGED <<extract_vars, db_vars, proc>>

ValidateCsvFile ==
    /\ call.fn = "validate_csv_file" /\ call.pc = "called"
    /\ call' = Returned(call, [error |-> validate_csv_file(call.args.file)])
    /\ UNCHANGED <<extract_vars, db_vars, proc>>

ProcessCsvFile ==
    /\ call.fn = "process_files" /\ call.pc = "called"
    /\ \E result \in process_files_csv_branch(call.args.file, call.args.typed) :
          call' = Returned(call, result)
    /\ UNCHANGED <<extract_vars, db_vars, proc>>

CsvInit ==
    /\ ExtractIdleInit /\ DbIdleInit
    /\ proc = [pc |-> "idle"]
    /\ \E file \in CsvFiles :
         \/ call = Called("extract_data", [file |-> file])
         \/ call = Called("validate_csv_file", [file |-> file])
         \/ \E typed \in BOOLEAN :
              call = Called("process_files", [file |-> file, typed |-> typed])

CsvNext == ExtractData \/ ValidateCsvFile \/ ProcessCsvFile

CsvSpec == CsvInit /\ [][CsvNext]_vars

(* the candidates under which the file decodes and shows the token *)
Qualifying(file) == {i \in DOMAIN encodings : file.decode[i] = "text" /\ ShowsToken(file)}

(* C18: the resolver tries UTF-8, UTF-16-BE, UTF-16-LE, Latin-1,          *)
(* Windows-1252 in this order and uses the first under which the file     *)
(* decodes and shows the header token; when none qualifies extraction     *)
(* fails with an error and returns no transactions.                       *)
C18_FirstQualifyingEncoding ==
    /\ encodings = <<"utf-8", "utf-16-be", "utf-16-le", "latin-1", "cp1252">>
    /\ Returns("extract_data") =>
         IF Qualifying(call.args.file) = {}
         THEN call.out.raised /\ call.out.error # "" /\ call.out.transactions = <<>>
         ELSE /\ call.out.encoding \in Qualifying(call.args.file)
              /\ \A i \in Qualifying(call.args.file) : call.out.encoding <= i

(* UTF-8 does not decode, the UTF-16 candidates give text without the     *)
(* token, Latin-1 and Windows-1252 both qualify: Latin-1 is used          *)
C18_Witness ==
    /\ Returns("extract_data")
    /\ call.args.file.decode = <<"error", "garbled", "garbled", "text", "text">>
    /\ call.out.encoding = 4
    /\ ~call.out.raised /\ Len(call.out.transactions) = 3

(* the required columns of the claim, as the code looks for them *)
LacksRequiredColumn(header) ==
    \/ \E col \in {"Fecha", "TT", "No. Doc"} : col \notin header
    \/ \E part \in {"Descripci", "Debe", "Haber"} : ~InHeader(part, header)

StructurallyInvalid(file) ==
    ~header_found(file) \/ LacksRequiredColumn(file.header) \/ ~file.date_range

(* C19: a CSV that lacks the header row, a required column or the         *)
(* date-range line fails with an error and yields no transactions, both   *)
(* from the extractor called directly and through process_files.          *)
C19_InvalidCsvRejected ==
    /\ (Returns("extract_data") /\ StructurallyInvalid(call.args.file)) =>
          call.out.raised /\ call.out.transactions = <<>>
    /\ (Returns("process_files") /\ StructurallyInvalid(call.args.file)) =>
          call.out.status = "error" /\ call.out.transactions = <<>>

---------------------------------------------------------------------------
(* Rows of a structurally valid CSV *)

(* the row has a valid date and an amount in Debe or in Haber *)
DatedWithAmount(row) == row.form = "ok" /\ (row.amt # -1 \/ row.amt2 # -1)

RowAmount(row) == IF row.amt # -1 THEN row.amt ELSE row.amt2

(* C20: for a structurally valid CSV every data row with a valid date and *)
(* an amount yields exactly one transaction, in row order, typed credit   *)
(* for NC and DE and debit for ND and CQ, with Amount the absolute value  *)
(* of the row's amount.                                                   *)
C20_OneTransactionPerRow ==
    parser.cls = "BICheckingCSVParser" =>
        LET rows == SelectSeq(Flatten(doc), DatedWithAmount)
        IN /\ Len(transactions) = Len(rows)
           /\ \A k \in 1..Len(rows) :
                 /\ rows[k].code \in {"NC", "DE"} => transactions[k].Type = "credit"
                 /\ rows[k].code \in {"ND", "CQ"} => transactions[k].Type = "debit"
                 /\ transactions[k].Amount = Abs(Milli(RowAmount(rows[k])))

(* rows (NC 1000.00), (ND 50.00), (DE 50.00) returned as credit, debit,   *)
(* credit                                                                  *)
C20_Witness ==
    /\ parser.cls = "BICheckingCSVParser" /\ pc = "returned"
    /\ [k \in 1..Len(Flatten(doc)) |-> Flatten(doc)[k].code] = <<"NC", "ND", "DE">>
    /\ [k \in 1..Len(transactions) |-> transactions[k].Type] = <<"credit", "debit", "credit">>
    /\ [k \in 1..Len(transactions) |-> transactions[k].Amount]
          = <<Milli(100000), Milli(5000), Milli(5000)>>

---------------------------------------------------------------------------
(* Currency conversion *)

(* round(x, 2) on thousandths, x >= 0; no product of the model ends in 5  *)
Round2(x) == ((x + 5) \div 10) * 10

(* C21: a record of a USD line with printed value v has amount v * 7.8    *)
(* rounded to 2 decimals, Original Value v and Original Currency USD; a   *)
(* record of a GTQ line has amount v and Original Value v.  Amount and    *)
(* value are compared without their sign, which is the subject of C1.     *)
C21_ConvertedAmountRounded ==
    \A i \in 1..Len(Emitted) :
        LET t == Emitted[i]
        IN IF t.OriginalCurrency = "USD"
           THEN Abs(t.Amount) = Round2(TimesRate(Abs(t.OriginalValue)))
           ELSE Abs(t.Amount) = Abs(t.OriginalValue)

---------------------------------------------------------------------------
(* Steps of the line loop *)

(* a line has just been read *)
LineRead == NLines' = NLines + 1

TheLine == Last(Last(doc'))

(* the line fails the grammar or the parsing of its date or numbers *)
Malformed(line) == line.form \in {"nomatch", "baddate", "nodate", "badamount"}

(* the types the balance-diff rule gives the parsed lines of a document   *)
(* when the balance is carried from page to page                           *)
ThreadedTypes(pages) == DiffTypes(ParsedLines(Flatten(pages)))

(* C22: in a checking document of several pages the first transaction of  *)
(* a page k > 1 is typed by the balance delta against the last            *)
(* transaction of page k-1; only the first transaction of the document    *)
(* is typed credit by default.                                            *)
C22_BalanceThreadedAcrossPages ==
    parser.cls \in CheckingParsers =>
        /\ Len(Emitted) = Len(ThreadedTypes(doc))
        /\ \A i \in 1..Len(Emitted) : Emitted[i].Type = ThreadedTypes(doc)[i]

(* C23: a line that fails the grammar or the number/date parsing is       *)
(* skipped without aborting the extraction and leaves previous_balance    *)
(* unchanged; a valid line is emitted and typed by its delta against the  *)
(* last successfully parsed line.                                         *)
C23_MalformedLineSkipped ==
    [][ LineRead =>
          /\ Malformed(TheLine) =>
                /\ Emitted' = Emitted
                /\ previous_balance' = previous_balance
                /\ pc' = "open" /\ page_open'
          /\ (parser.cls \in CheckingParsers /\ TheLine.form = "ok" /\ TheLine.noise = "none") =>
                /\ Len(Emitted') = Len(Emitted) + 1
                /\ Last(Emitted').Type =
                      IF previous_balance = <<>> THEN "credit"
                      ELSE IF previous_balance'[1] > previous_balance[1] THEN "credit"
                      ELSE "debit"
                /\ SubSeq(Emitted', 1, Len(Emitted)) = Emitted ]_vars

(* a malformed line between two valid lines of a page: both are emitted,  *)
(* the second typed debit by its delta against the first                   *)
C23_Witness ==
    /\ parser.cls = "BancoIndustrialCheckingParser" /\ pc = "returned"
    /\ Len(doc) = 1 /\ Len(doc[1]) = 3
    /\ doc[1][1].form = "ok" /\ doc[1][1].noise = "none"
    /\ doc[1][2].form = "baddate"
    /\ doc[1][3].form = "ok" /\ doc[1][3].noise = "none" /\ doc[1][3].bal < doc[1][1].bal
    /\ Len(transactions) = 2
    /\ transactions[2].Type = "debit"


(***************************************************************************)
(* Noise filtering.  A line that holds a keyword of the skip list of its  *)
(* format, in whatever letter case, is discarded before the grammar.      *)
(***************************************************************************)
NoTransactionFrom(line) ==
    /\ Emitted' = Emitted
    /\ previous_balance' = previous_balance

(* C24: in every PDF extractor a line that contains a keyword of the      *)
(* format's skip list, compared without regard to letter case, never      *)
(* produces a transaction and never changes previous_balance, even when   *)
(* the rest of the line matches the transaction grammar.                  *)
C24_NoiseLineNeverParsed ==
    [][ (LineRead /\ parser.cls \in PdfParsers /\ TheLine.noise # "none")
            => NoTransactionFrom(TheLine) ]_vars

(* What the extractors do: a keyword spelled as the list spells it is     *)
(* filtered by all five, a keyword in another letter case by all but the  *)
(* Industrial USD credit extractor.                                       *)
NoiseLineFilteredAsCompared ==
    [][ (/\ LineRead /\ parser.cls \in PdfParsers
         /\ \/ TheLine.noise = "listed"
            \/ TheLine.noise = "cased" /\ parser.cls # "BancoIndustrialCreditUSDParser")
            => NoTransactionFrom(TheLine) ]_vars


---------------------------------------------------------------------------
(* How a rule is compared, and the two category passes side by side *)

(* re.search of the pattern as the rule holds it, in the description as   *)
(* it is stored; ignorecase is whether re.IGNORECASE is passed            *)
SearchAsWritten(r, d, ignorecase) ==
    LET c == re_compile(r.pattern)
    IN IF c.ok THEN YesNo(re_search(c.toks, d, ignorecase)) ELSE "re.error"

(* the comparison of the lowercased pattern text with the lowercased      *)
(* description for the four match types that are not regex                *)
LoweredCompare(r, d) ==
    CASE r.match_type = "exact" -> YesNo(Lower(d) = Lower(r.pattern))
      [] r.match_type = "contains" -> YesNo(Contains(Lower(r.pattern), Lower(d)))
      [] r.match_type = "starts_with" -> YesNo(StartsWith(Lower(d), Lower(r.pattern)))
      [] r.match_type = "ends_with" -> YesNo(EndsWith(Lower(d), Lower(r.pattern)))
      [] OTHER -> "no"

ComparedAsSpecified(r, d, answer) ==
    IF r.match_type = "regex"
    THEN \E ignorecase \in BOOLEAN : answer = SearchAsWritten(r, d, ignorecase)
    ELSE answer = LoweredCompare(r, d)

(* C26: in every classification path a regex rule is matched by searching *)
(* its pattern as written in the original-case description, neither in   *)
(* the lowercased description nor with a lowercased pattern; the other    *)
(* four match types compare the lowercased pattern text with the          *)
(* lowercased description.                                                 *)
C26_RegexSearchedAsWritten ==
    CallEvaluates =>
        \A k \in DOMAIN last.rules :
            ComparedAsSpecified(last.rules[k], CallObject.description,
                                CallMatch(last.rules[k]))

(* the same for the two scripts alone *)
ScriptsCompareAsSpecified ==
    (CallEvaluates /\ last.op # "views.auto_categorize_transaction") =>
        \A k \in DOMAIN last.rules :
            ComparedAsSpecified(last.rules[k], CallObject.description,
                                CallMatch(last.rules[k]))

(* C27: for every rule set and every transaction that is not manually     *)
(* categorized, the auto_categorize_transaction of the recategorize       *)
(* script and views.auto_categorize_transaction assign the same category  *)
(* and the same confidence, or both assign nothing.                        *)
C27_ScriptAgreesWithViews ==
    (last.op \in CategoryCalls /\ ~CallObject.manually_categorized) =>
        script_auto_categorize_transaction(last.rules, CallObject).save
            = views_auto_categorize_transaction(last.rules, CallObject).save

(* the two agree on every rule set without a regex rule *)
ScriptAgreesWithViewsWithoutRegex ==
    (/\ last.op \in CategoryCalls /\ ~CallObject.manually_categorized
     /\ \A k \in DOMAIN last.rules : last.rules[k].match_type # "regex") =>
        script_auto_categorize_transaction(last.rules, CallObject).save
            = views_auto_categorize_transaction(last.rules, CallObject).save


---------------------------------------------------------------------------
(* The two maintenance scripts as processes: recategorize_all_transactions *)
(* and renormalize_all_transactions each run their query, hold the        *)
(* objects it loaded and go through them one by one, while the other      *)
(* script and the API work on the same table.  Here script maps the name  *)
(* of a script to its run: [name |-> "none"], [name |-> "running", force, *)
(* rows] or [name |-> "done", force].  An empty merchant_name stands for  *)
(* NULL as well as for ''.                                                 *)

MaintPatterns == << TransactionPattern(1, <<<<"a">>, "contains">>, 9, TRUE) >>

MaintMerchantPatterns == << MerchantPattern(1, <<<<"a">>, "contains">>, 9, TRUE) >>

MerchantNames == {"", "Old"}

MaintRows ==
    { [t EXCEPT !.merchant_name = m] : t \in TransactionRows, m \in MerchantNames }

(* the query of renormalize_all_transactions *)
renormalize_query(table, force) ==
    IF force THEN Snapshot(table, DOMAIN table)
    ELSE Snapshot(table, {i \in DOMAIN table : table[i].merchant_name = ""})

Running(force, rows) ==
    IF rows = <<>> THEN [name |-> "done", force |-> force]
    ELSE [name |-> "running", force |-> force, rows |-> rows]

RunAfter(run) == Running(run.force, Tail(run.rows))

MaintInit ==
    /\ ExtractIdleInit
    /\ ToolIdleInit
    /\ patterns = MaintPatterns
    /\ merchant_patterns = MaintMerchantPatterns
    /\ \E n \in 1..MaxTxns : txns \in [1..n -> MaintRows]
    /\ pending = <<>>
    /\ batch_rules = {}
    /\ script = [recategorize |-> NoScript, renormalize |-> NoScript]
    /\ last = [op |-> "none"]

(* what one iteration of a script's loop did to row id: the stored row    *)
(* before the iteration, the object the query had loaded, the rules read  *)
MaintCall(op, run, rules, out) ==
    [op |-> op, id |-> Head(run.rows).id, rules |-> rules,
     before |-> txns[Head(run.rows).id], loaded |-> Head(run.rows).obj, out |-> out]

(* recategorize_all_transactions(force): the query *)
RecategorizeAllStart ==
    /\ script.recategorize = NoScript
    /\ \E force \in BOOLEAN :
         script' = [script EXCEPT !.recategorize = Running(force, recategorize_query(txns, force))]
    /\ last' = [op |-> "recategorize_all_transactions"]
    /\ UNCHANGED <<patterns, merchant_patterns, txns, pending, batch_rules>>
    /\ extract_idle

(* recategorize_all_transactions: one iteration of the loop *)
RecategorizeAllStep ==
    /\ script.recategorize.name = "running"
    /\ \E rules \in filter_order_by(patterns) :
         LET run == script.recategorize
             txn == Head(run.rows).obj
             obj == IF run.force
                    THEN [txn EXCEPT !.category = "None", !.category_confidence = 0]
                    ELSE txn
             out == script_auto_categorize_transaction(rules, obj)
         IN /\ txns' = Save(txns, Head(run.rows).id, out)
            /\ last' = MaintCall("recategorize.auto_categorize_transaction", run, rules, out)
    /\ script' = [script EXCEPT !.recategorize = RunAfter(script.recategorize)]
    /\ UNCHANGED <<patterns, merchant_patterns, pending, batch_rules>>
    /\ extract_idle

(* renormalize_all_transactions(force): the query *)
RenormalizeAllStart ==
    /\ script.renormalize = NoScript
    /\ \E force \in BOOLEAN :
         script' = [script EXCEPT !.renormalize = Running(force, renormalize_query(txns, force))]
    /\ last' = [op |-> "renormalize_all_transactions"]
    /\ UNCHANGED <<patterns, merchant_patterns, txns, pending, batch_rules>>
    /\ extract_idle

(* renormalize_all_transactions: one iteration of the loop *)
RenormalizeAllStep ==
    /\ script.renormalize.name = "running"
    /\ \E rules \in filter_order_by(merchant_patterns) :
         LET run == script.renormalize
             txn == Head(run.rows).obj
             obj == IF run.force THEN [txn EXCEPT !.merchant_name = ""] ELSE txn
             out == auto_normalize_merchant(rules, obj)
         IN /\ txns' = Save(txns, Head(run.rows).id, out)
            /\ last' = MaintCall("renormalize.auto_normalize_merchant", run, rules, out)
    /\ script' = [script EXCEPT !.renormalize = RunAfter(script.renormalize)]
    /\ UNCHANGED <<patterns, merchant_patterns, pending, batch_rules>>
    /\ extract_idle

(* POST categorize_transaction while the scripts run *)
MaintCategorizeTransaction ==
    /\ \E name \in DOMAIN script : script[name].name = "running"
    /\ last.op # "categorize_transaction"
    /\ \E id \in DOMAIN txns :
         /\ txns' = [txns EXCEPT ![id] = categorize_transaction(txns[id], "Misc")]
         /\ last' = [op |-> "categorize_transaction", id |-> id]
    /\ UNCHANGED <<patterns, merchant_patterns, pending, batch_rules, script>>
    /\ extract_idle

MaintNext ==
    \/ RecategorizeAllStart
    \/ RecategorizeAllStep
    \/ RenormalizeAllStart
    \/ RenormalizeAllStep
    \/ MaintCategorizeTransaction

MaintSpec == MaintInit /\ [][MaintNext]_vars

(* the fields of a row that belong to the category pass *)
CategoryFields(t) == <<t.category, t.category_confidence, t.manually_categorized>>

(* the last iteration left the fields of the other pass as they were and  *)
(* did what it does on the same object whatever the other pass had put    *)
(* into its own fields                                                     *)
LastPassIndependent ==
    /\ last.op = "recategorize.auto_categorize_transaction" =>
          /\ txns[last.id].merchant_name = last.before.merchant_name
          /\ \A m \in MerchantNames :
                LET other == script_auto_categorize_transaction(
                                 last.rules, [last.before EXCEPT !.merchant_name = m])
                IN /\ other.returns = script_auto_categorize_transaction(
                                          last.rules, last.before).returns
                   /\ other.save # <<>> =>
                        CategoryFields(other.save[1])
                            = CategoryFields(script_auto_categorize_transaction(
                                                 last.rules, last.before).save[1])
    /\ last.op = "renormalize.auto_normalize_merchant" =>
          /\ CategoryFields(txns[last.id]) = CategoryFields(last.before)
          /\ \A t \in TransactionRows :
                LET other == auto_normalize_merchant(
                                 last.rules, [t EXCEPT !.description = last.before.description])
                IN /\ other.returns = last.out.returns
                   /\ other.save # <<>> =>
                        other.save[1].merchant_name = last.out.save[1].merchant_name

(* C25: the category pass and the merchant pass are independent: the      *)
(* category pass never changes merchant_name, the merchant pass never     *)
(* changes category, category_confidence or manually_categorized, and     *)
(* the outcome of either pass on a transaction does not depend on         *)
(* whether or how the other pass matched.                                  *)
C25_PassesIndependent == LastPassIndependent

(* the same when the object the script holds is the row as it is stored *)
PassesIndependentWhenFresh ==
    (last.op \in ClassifyCalls /\ last.loaded = last.before) => LastPassIndependent

(* the category and the confidence description d has under the active     *)
(* rules: those of the first rule that matches, none and 0 without one    *)
Classified(d) ==
    { LET out == script_for_patterns(rules, Transaction(d, "None", 0, FALSE))
      IN IF out.save = <<>> THEN <<"None", 0>>
         ELSE <<out.save[1].category, out.save[1].category_confidence>> :
        rules \in filter_order_by(patterns) }

(* the merchant name description d has under the active merchant rules *)
Normalized(d) ==
    { LET out == auto_normalize_merchant(rules, Transaction(d, "None", 0, FALSE))
      IN IF out.save = <<>> THEN "" ELSE out.save[1].merchant_name :
        rules \in filter_order_by(merchant_patterns) }

Completes(name, force) ==
    /\ script[name].name # "done"
    /\ script'[name].name = "done"
    /\ script'[name].force = force

(* C28: when recategorize_all_transactions(force=True) completes, the     *)
(* stored category and confidence of every transaction that is not        *)
(* manually categorized are the classification of its description under   *)
(* the active rules, none and 0 when no rule matches; likewise            *)
(* renormalize_all_transactions(force=True) leaves merchant_name empty    *)
(* when no merchant rule matches.                                          *)
C28_ForcedRunLeavesCurrentClassification ==
    [][ /\ Completes("recategorize", TRUE) =>
              \A id \in DOMAIN txns' :
                  ~txns'[id].manually_categorized =>
                      <<txns'[id].category, txns'[id].category_confidence>>
                          \in Classified(txns'[id].description)
        /\ Completes("renormalize", TRUE) =>
              \A id \in DOMAIN txns' :
                  Normalized(txns'[id].description) = {""} => txns'[id].merchant_name = "" ]_vars

(* an iteration on a row as it is stored, whose description a rule        *)
(* matches, leaves the classification of the description                  *)
StepSetsMatch ==
    (/\ last.op = "recategorize.auto_categorize_transaction"
     /\ last.loaded = last.before
     /\ ~last.before.manually_categorized
     /\ Classified(last.before.description) # {<<"None", 0>>})
        => <<txns[last.id].category, txns[last.id].category_confidence>>
              \in Classified(last.before.description)


---------------------------------------------------------------------------
(* views.process_files on one session.  Here proc holds the stored        *)
(* session row, the stored files of the session, how many times the       *)
(* transactions of each file were saved, and the requests: each has its   *)
(* position in process_files, the session object it loaded, the index of  *)
(* the file its loop is at and whether its all_transactions is non-empty. *)
(* What a file does when it is processed is its fate, fixed at upload.    *)

MaxFiles == 2

Requests == {"a", "b"}

(* validate_csv_file raises ValueError; the CSV detection finds nothing;  *)
(* the PDF yields no text; the PDF has no parser type; something raises   *)
(* (the factory, PDFProcessor.process, extract_data); extract_data        *)
(* returns an empty list; extract_data returns transactions               *)
Fates == {"invalid_csv", "undetected", "no_text", "no_parser", "raises",
          "empty", "transactions"}

(* the file counted on every path *)
process_file_counts_all(fate) ==
    IF fate = "transactions"
    THEN [status |-> "completed", counted |-> TRUE, transactions |-> TRUE]
    ELSE [status |-> "error", counted |-> TRUE, transactions |-> FALSE]

(* one iteration of the loop of process_files: the status the file is     *)
(* saved with, whether processed_files is incremented, whether            *)
(* transactions go to the database and to all_transactions                *)
process_file(fate) ==
    CASE fate \in {"invalid_csv", "undetected", "no_text", "no_parser"} ->
             [status |-> "error", counted |-> FALSE, transactions |-> FALSE]
      [] fate = "raises" ->
             [status |-> "error", counted |-> FALSE, transactions |-> FALSE]
      [] fate = "empty" ->
             [status |-> "error", counted |-> TRUE, transactions |-> FALSE]
      [] fate = "transactions" ->
             [status |-> "completed", counted |-> TRUE, transactions |-> TRUE]

(* upload_files: the session as it is stored when the upload returns *)
ProcessingSession(total_files) ==
    [status |-> "ready", total_files |-> total_files, processed_files |-> 0,
     output_file |-> ""]

UploadedFile(fate) == [fate |-> fate, status |-> "pending"]

NoRequest == [pc |-> "none"]

SessionInit ==
    /\ ExtractIdleInit /\ DbIdleInit
    /\ call = [fn |-> "none"]
    /\ \E n \in 1..MaxFiles, fates \in [1..MaxFiles -> Fates] :
         proc = [session |-> ProcessingSession(n),
                 files |-> [i \in 1..n |-> UploadedFile(fates[i])],
                 saved |-> [i \in 1..n |-> 0],
                 requests |-> [r \in Requests |-> NoRequest]]

(* ProcessingSession.objects.get(session_id=session_id) *)
ProcessFilesGetSession(r) ==
    /\ proc.requests[r].pc = "none"
    /\ proc' = [proc EXCEPT !.requests[r] = [pc |-> "got", session |-> proc.session]]
    /\ UNCHANGED <<extract_vars, db_vars, call>>

(* the test of session.status, then status = 'processing' and save() *)
ProcessFilesCheckReady(r) ==
    /\ proc.requests[r].pc = "got"
    /\ LET session == proc.requests[r].session
       IN IF session.status # "ready"
          THEN proc' = [proc EXCEPT !.requests[r] = [pc |-> "rejected", session |-> session]]
          ELSE LET saved == [session EXCEPT !.status = "processing"]
               IN proc' = [proc EXCEPT !.session = saved,
                                       !.requests[r] = [pc |-> "loop", session |-> saved,
                                                        file |-> 1,
                                                        all_transactions |-> FALSE]]
    /\ UNCHANGED <<extract_vars, db_vars, call>>

(* one iteration of for uploaded_file in session.files.all() *)
ProcessFilesFile(r) ==
    /\ proc.requests[r].pc = "loop"
    /\ proc.requests[r].file <= Len(proc.files)
    /\ LET req == proc.requests[r]
           i == req.file
           done == process_file(proc.files[i].fate)
           session == IF done.counted
                      THEN [req.session EXCEPT !.processed_files = @ + 1]
                      ELSE req.session
       IN proc' = [proc EXCEPT
                     !.files[i].status = done.status,
                     !.saved[i] = IF done.transactions THEN @ + 1 ELSE @,
                     !.session = IF done.counted THEN session ELSE @,
                     !.requests[r] = [req EXCEPT
                          !.session = session,
                          !.file = i + 1,
                          !.all_transactions = req.all_transactions \/ done.transactions]]
    /\ UNCHANGED <<extract_vars, db_vars, call>>

(* after the loop: the combined file, the final status, save(), Response *)
ProcessFilesComplete(r) ==
    /\ proc.requests[r].pc = "loop"
    /\ proc.requests[r].file > Len(proc.files)
    /\ LET req == proc.requests[r]
           session == IF req.all_transactions
                      THEN [req.session EXCEPT !.output_file = "all_transactions.csv",
                                               !.status = "completed"]
                      ELSE [req.session EXCEPT !.status = "error"]
       IN proc' = [proc EXCEPT !.session = session,
                               !.requests[r] = [pc |-> "returned", session |-> session]]
    /\ UNCHANGED <<extract_vars, db_vars, call>>

SessionNext ==
    \E r \in Requests :
        \/ ProcessFilesGetSession(r)
        \/ ProcessFilesCheckReady(r)
        \/ ProcessFilesFile(r)
        \/ ProcessFilesComplete(r)

SessionSpec == SessionInit /\ [][SessionNext]_vars

(* the requests that passed the test of the status *)
PassedGuard == {r \in Requests : proc.requests[r].pc \in {"loop", "returned"}}

(* C29: a session is extracted at most once: process_files runs the       *)
(* extraction only when the status is 'ready', the status never returns   *)
(* to 'ready', and for any interleaving of two requests on the session at *)
(* most one of them passes the guard, so the transactions of each file    *)
(* are saved at most once.                                                 *)
C29_ExtractedAtMostOnce ==
    /\ Cardinality(PassedGuard) <= 1
    /\ \A i \in DOMAIN proc.saved : proc.saved[i] <= 1

(* the stored status never goes back to 'ready', and a request that finds *)
(* another status stored when it loads the session extracts nothing       *)
StatusLeavesReadyForGood ==
    [][ /\ proc.session.status # "ready" => proc'.session.status # "ready"
        /\ \A r \in Requests :
              (proc.requests[r].pc = "none" /\ proc'.requests[r].pc = "got"
                    /\ proc.session.status # "ready")
                  => proc'.requests[r].session.status # "ready" ]_vars

Returns_process_files(r) ==
    proc.requests[r].pc = "loop" /\ proc'.requests[r].pc = "returned"

RanToEnd(files) == {i \in DOMAIN files : files[i].fate \in {"empty", "transactions"}}

Failing(files) == {i \in DOMAIN files : files[i].fate # "transactions"}

(* C30: when process_files returns, the session status is 'completed'     *)
(* with an output file set if at least one file of the session yielded    *)
(* transactions, and 'error' otherwise; a file that fails validation,     *)
(* detection or extraction is marked 'error' without stopping the         *)
(* remaining files; processed_files never exceeds total_files and counts  *)
(* only files whose extraction ran to its end.                             *)
C30_SessionOutcome ==
    [][ \A r \in Requests :
          Returns_process_files(r) =>
              LET session == proc'.session
                  files == proc'.files
              IN /\ IF \E i \in DOMAIN files : files[i].fate = "transactions"
                    THEN session.status = "completed" /\ session.output_file # ""
                    ELSE session.status = "error" /\ session.output_file = ""
                 /\ \A i \in DOMAIN files : files[i].status # "pending"
                 /\ \A i \in Failing(files) : files[i].status = "error"
                 /\ session.processed_files <= session.total_files
                 /\ session.processed_files <= Cardinality(RanToEnd(files)) ]_vars

(* a file that failed validation came first, the one after it yielded     *)
(* transactions: the session is completed and counts one file             *)
C30_Witness ==
    /\ \E r \in Requests : proc.requests[r].pc = "returned"
    /\ Len(proc.files) = 2
    /\ proc.files[1].fate = "invalid_csv" /\ proc.files[1].status = "error"
    /\ proc.files[2].fate = "transactions" /\ proc.files[2].status = "completed"
    /\ proc.session.status = "completed" /\ proc.session.output_file # ""
    /\ proc.session.processed_files = 1

====
